---- MODULE Spec2Model ----
(***************************************************************************)
(* Drafts AI Engine: the provider dispatch layer of ai-engine.js.          *)
(*                                                                         *)
(* The model follows the module with sanitization and success keywords      *)
(* (MODELS, buildSystemPrompt, getApiKey, httpPost, sanitizeText, the four *)
(* adapters, SUCCESS_HANDLERS and engine.callAI).  callAI is synchronous;  *)
(* it is split where it blocks on a host collaborator: the credential      *)
(* prompt (Credential.authorize) and the HTTP exchange (HTTP.request).     *)
(*                                                                         *)
(* JavaScript values are tagged records, so that typeof, truthiness,       *)
(* property lookup through Object.prototype and string coercion are        *)
(* computed as the language computes them.  A text is a sequence of        *)
(* chunks; a chunk is a run of characters the code never looks inside.     *)
(* Every character the code tests for on its own (a trailing "/", a line   *)
(* break, surrounding blanks) is a chunk of its own, and the texts whose   *)
(* length the code measures are given character by character.              *)
(***************************************************************************)
EXTENDS Naturals, Sequences, FiniteSets, TLC

\* ------------------------------------------------------------------------
\* JavaScript values
\* ------------------------------------------------------------------------

Undefined == [t |-> "undefined"]
Null      == [t |-> "null"]
Str(s)    == [t |-> "string", v |-> s]
Num(n)    == [t |-> "number", v |-> n]
Fn(name)  == [t |-> "function", name |-> name]
Obj(p)    == [t |-> "object", p |-> p]
Arr(a)    == [t |-> "array", a |-> a]
Thrown(e) == [t |-> "throw", e |-> e]

NoProps == [k \in {} |-> Undefined]

\* typeof x
TypeOf(x) == IF x.t \in {"null", "array"} THEN "object" ELSE x.t

\* ToBoolean(x): the test of `if (x)`, `!x` and `x || y`.
Truthy(x) ==
    CASE x.t \in {"undefined", "null"} -> FALSE
      [] x.t = "string" -> x.v # <<>>
      [] x.t = "number" -> x.v # 0
      [] OTHER -> TRUE

\* x || y
OrElse(x, y) == IF Truthy(x) THEN x ELSE y

\* The properties every object literal inherits from Object.prototype.
ObjectPrototypeProps ==
    {"constructor", "toString", "toLocaleString", "valueOf", "hasOwnProperty",
     "isPrototypeOf", "propertyIsEnumerable", "__proto__"}

\* o[k] on an object literal: an own property, else the inherited one, else
\* undefined; on undefined or null the access throws a TypeError.
Get(o, k) ==
    CASE o.t = "throw" -> o
      [] o.t \in {"undefined", "null"} -> Thrown("TypeError")
      [] o.t = "object" /\ k \in DOMAIN o.p -> o.p[k]
      [] o.t = "object" /\ k = "__proto__" -> Obj(NoProps)
      [] o.t = "object" /\ k \in ObjectPrototypeProps -> Fn(k)
      [] OTHER -> Undefined

\* a[i], i counted from 0.
Index(a, i) ==
    CASE a.t = "throw" -> a
      [] a.t \in {"undefined", "null"} -> Thrown("TypeError")
      [] a.t = "array" /\ i + 1 \in DOMAIN a.a -> a.a[i + 1]
      [] OTHER -> Undefined

\* The text a value contributes to a string concatenation ('' + x).
ToText(x) ==
    CASE x.t = "string" -> x.v
      [] x.t = "number" -> <<ToString(x.v)>>
      [] x.t = "undefined" -> <<"undefined">>
      [] x.t = "null" -> <<"null">>
      [] x.t = "throw" -> <<x.e>>
      [] OTHER -> <<"[object Object]">>

\* ------------------------------------------------------------------------
\* Text
\* ------------------------------------------------------------------------

WhiteSpace == {" ", "\n", "\t"}

RECURSIVE TrimStart(_)
TrimStart(s) ==
    IF s # <<>> /\ Head(s) \in WhiteSpace THEN TrimStart(Tail(s)) ELSE s

RECURSIVE TrimEnd(_)
TrimEnd(s) ==
    IF s # <<>> /\ s[Len(s)] \in WhiteSpace
    THEN TrimEnd(SubSeq(s, 1, Len(s) - 1))
    ELSE s

\* String.prototype.trim
Trim(s) == TrimEnd(TrimStart(s))

\* Array.prototype.join
RECURSIVE Join(_, _)
Join(parts, sep) ==
    IF parts = <<>> THEN <<>>
    ELSE IF Len(parts) = 1 THEN parts[1]
    ELSE parts[1] \o sep \o Join(Tail(parts), sep)

\* text.replace(/\/$/, ''): one trailing slash removed.
StripTrailingSlash(s) ==
    IF s # <<>> /\ s[Len(s)] = "/" THEN SubSeq(s, 1, Len(s) - 1) ELSE s

\* text.split('\n')[0]
RECURSIVE FirstLine(_)
FirstLine(s) ==
    IF s = <<>> \/ Head(s) = "\n" THEN <<>> ELSE <<Head(s)>> \o FirstLine(Tail(s))

\* part occurs in text as a run of consecutive chunks.
Contains(text, part) ==
    \E i \in 0..(Len(text) - Len(part)) : SubSeq(text, i + 1, i + Len(part)) = part

\* ------------------------------------------------------------------------
\* Pre-defined model registry
\* ------------------------------------------------------------------------

\* The endpoints, with the host name as a chunk of its own.
AlterEndpoint     == <<"https://", "alterhq.com", "/api/v1">>
AnthropicEndpoint == <<"https://api.", "anthropic.com">>
OpenAIEndpoint    == <<"https://api.", "openai.com", "/v1">>
OllamaEndpoint    == <<"http://", "localhost", ":11434">>

Config(provider, endpoint, model) ==
    Obj([provider |-> Str(<<provider>>), endpoint |-> Str(endpoint),
         model |-> Str(<<model>>)])

\* The entries of MODELS in the order the literal lists them.
ModelTable ==
    << <<"alter-openai-4o",        "alter", AlterEndpoint, "OpenAI#gpt-4o">>,
       <<"alter-openai-4o-mini",   "alter", AlterEndpoint, "OpenAI#gpt-4o-mini">>,
       <<"alter-openai-o1",        "alter", AlterEndpoint, "OpenAI#o1">>,
       <<"alter-openai-o3",        "alter", AlterEndpoint, "OpenAI#o3">>,
       <<"alter-openai-o3-mini",   "alter", AlterEndpoint, "OpenAI#o3-mini">>,
       <<"alter-claude-opus",      "alter", AlterEndpoint, "Claude#Claude-3-Opus-20240229">>,
       <<"alter-claude-sonnet",    "alter", AlterEndpoint, "Claude#Claude-3-5-Sonnet-20240620">>,
       <<"alter-claude-37-sonnet", "alter", AlterEndpoint, "Claude#Claude-3-7-Sonnet-20250219">>,
       <<"alter-claude-haiku",     "alter", AlterEndpoint, "Claude#Claude-3-5-Haiku-20241022">>,
       <<"alter-gemini-pro",       "alter", AlterEndpoint, "Gemini#gemini-1.5-pro">>,
       <<"alter-gemini-15-flash",  "alter", AlterEndpoint, "Gemini#gemini-1.5-flash">>,
       <<"alter-gemini-fast",      "alter", AlterEndpoint, "Gemini#gemini-2.0-flash">>,
       <<"alter-gemini-25-pro",    "alter", AlterEndpoint, "Gemini#gemini-2.5-pro">>,
       <<"alter-mistral-large",    "alter", AlterEndpoint, "Mistral#mistral-large-latest">>,
       <<"alter-mistral-small",    "alter", AlterEndpoint, "Mistral#mistral-small-latest">>,
       <<"alter-codestral",        "alter", AlterEndpoint, "Mistral#codestral-latest">>,
       <<"alter-pixtral",          "alter", AlterEndpoint, "Mistral#pixtral-large-latest">>,
       <<"anthropic-opus",         "anthropic", AnthropicEndpoint, "claude-opus-4-6">>,
       <<"anthropic-sonnet",       "anthropic", AnthropicEndpoint, "claude-sonnet-4-6">>,
       <<"anthropic-haiku",        "anthropic", AnthropicEndpoint, "claude-haiku-4-5-20251001">>,
       <<"openai-5-mini",          "openai", OpenAIEndpoint, "gpt-4o">>,
       <<"openai-5-nano",          "openai", OpenAIEndpoint, "gpt-4o-mini">>,
       <<"ollama-llama3",          "ollama", OllamaEndpoint, "llama3">>,
       <<"ollama-mistral",         "ollama", OllamaEndpoint, "mistral">> >>

\* var MODELS = { ... }
MODELS ==
    Obj([k \in {ModelTable[i][1] : i \in DOMAIN ModelTable} |->
            LET i == CHOOSE j \in DOMAIN ModelTable : ModelTable[j][1] = k
            IN  Config(ModelTable[i][2], ModelTable[i][3], ModelTable[i][4])])

\* Object.keys(MODELS): the own keys, in insertion order, each as a text.
ObjectKeys(o) ==
    [i \in DOMAIN ModelTable |-> <<ModelTable[i][1]>>]

\* engine.defaultModel
defaultModel == "alter-claude-haiku"

\* ------------------------------------------------------------------------
\* Prompt assembly
\* ------------------------------------------------------------------------

Sections ==
    << <<"Role", "role">>, <<"Goal", "goal">>, <<"Instructions", "steps">>,
       <<"Output Format", "output">>, <<"Example", "example">> >>

RECURSIVE SectionParts(_, _)
SectionParts(params, i) ==
    IF i > Len(Sections) THEN <<>>
    ELSE LET label == Sections[i][1]
             value == Get(params, Sections[i][2])
         IN  (IF Truthy(value) /\ Trim(value.v) # <<>>
              THEN << <<"# ", label, "\n">> \o Trim(value.v) >>
              ELSE <<>>)
             \o SectionParts(params, i + 1)

\* buildSystemPrompt, mutated: the sections are joined by a single line break.
buildSystemPromptOneBreak(params) == Join(SectionParts(params, 1), <<"\n">>)

\* function buildSystemPrompt(params)
buildSystemPrompt(params) == Join(SectionParts(params, 1), <<"\n", "\n">>)

\* ------------------------------------------------------------------------
\* State
\* ------------------------------------------------------------------------

VARIABLES
    modelWrites,   \* the assignments to properties of MODELS since load
    sanitizePII,   \* engine.sanitizePII
    piiPatterns,   \* PII_PATTERNS, which engine.piiPatterns aliases
    draft,         \* the host's current draft: content, template tags, updates
    created,       \* the drafts made by Draft.create(), in order
    pc,            \* where the running callAI stands
    frame,         \* the arguments and locals of the running callAI
    trace,         \* what the running callAI did to its collaborators, in order
    escaped,       \* an exception left callAI
    calls,         \* the number of callAI invocations so far
    kept           \* a call that has returned, kept to compare later calls with

vars ==
    <<modelWrites, sanitizePII, piiPatterns, draft, created, pc, frame, trace, escaped, calls,
      kept>>

\* An object after the assignments o[w.key] = w.value, oldest first.
RECURSIVE Written(_, _)
Written(o, writes) ==
    IF writes = <<>> THEN o
    ELSE LET w == writes[Len(writes)]
             before == Written(o, SubSeq(writes, 1, Len(writes) - 1))
         IN  Obj([k \in DOMAIN before.p \cup {w.key} |->
                     IF k = w.key THEN w.value ELSE before.p[k]])

\* MODELS (which engine.models aliases) as it stands: the literal with the
\* assignments made since.
models == Written(MODELS, modelWrites)

\* The number of callAI invocations explored.
MaxCalls == 1

\* The number of rules a script appends to engine.piiPatterns.
MaxPushed == 1

\* ------------------------------------------------------------------------
\* PII sanitization
\* ------------------------------------------------------------------------

\* A pattern is the set of chunks its regular expression matches whole; all
\* the patterns carry the g flag, so every match in the text is replaced,
\* and so each RegExp carries lastIndex, where its next exec would start.
Rule(pattern, replacement) ==
    [pattern |-> pattern, replacement |-> replacement, lastIndex |-> 0]

EmailChunks == {"a@b.com"}
PhoneChunks == {"555-123-4567"}
SsnChunks   == {"123-45-6789"}
CardChunks  == {"4111 1111 1111 1111"}
IpChunks    == {"10.0.0.1"}

\* var PII_PATTERNS = [ ... ]
BuiltinPatterns ==
    << Rule(EmailChunks, "[EMAIL]"), Rule(PhoneChunks, "[PHONE]"),
       Rule(SsnChunks, "[SSN]"), Rule(CardChunks, "[CARD]"),
       Rule(IpChunks, "[IP]") >>

\* The replacement, mutated: the pattern has lost its g flag, so only the
\* first match is replaced.
ReplaceFirst(text, rule) ==
    [i \in DOMAIN text |->
        IF text[i] \in rule.pattern /\ \A j \in 1..(i - 1) : text[j] \notin rule.pattern
        THEN rule.replacement ELSE text[i]]

\* text.replace(pattern, replacement) with a global pattern.
ReplaceAll(text, rule) ==
    [i \in DOMAIN text |->
        IF text[i] \in rule.pattern THEN rule.replacement ELSE text[i]]

\* The loop, mutated: the rules are applied from the last to the first.
RECURSIVE ApplyRulesBackwards(_, _, _)
ApplyRulesBackwards(text, rules, i) ==
    IF i > Len(rules) THEN text
    ELSE ReplaceAll(ApplyRulesBackwards(text, rules, i + 1), rules[i])

\* The loop of sanitizeText over the rule list, from rule i on.
RECURSIVE ApplyRules(_, _, _)
ApplyRules(text, rules, i) ==
    IF i > Len(rules) THEN text
    ELSE ApplyRules(ReplaceAll(text, rules[i]), rules, i + 1)

\* function sanitizeText(text)
sanitizeText(text) ==
    IF TypeOf(text) # "string" THEN text
    ELSE Str(ApplyRules(text.v, piiPatterns, 1))

\* The place of the last chunk of the text the pattern matches (0: none).
LastMatch(text, rule) ==
    LET at == {i \in DOMAIN text : text[i] \in rule.pattern}
    IN  IF at = {} THEN 0 ELSE CHOOSE i \in at : \A j \in at : j <= i

\* The pattern after the replace, mutated: lastIndex stays at the last match.
AfterReplaceKeepsIndex(text, rule) ==
    [rule EXCEPT !.lastIndex = LastMatch(text, rule)]

\* The pattern object after text.replace(pattern, replacement): a replace
\* with a global pattern sets lastIndex to 0, searches until exec finds no
\* further match, and that last exec leaves lastIndex at 0.
AfterReplace(text, rule) ==
    [rule EXCEPT !.lastIndex = 0]

\* PII_PATTERNS after the loop of sanitizeText has run from rule i on.
RECURSIVE ScanRules(_, _, _)
ScanRules(text, rules, i) ==
    IF i > Len(rules) THEN rules
    ELSE ScanRules(ReplaceAll(text, rules[i]),
                   [rules EXCEPT ![i] = AfterReplace(text, rules[i])], i + 1)

\* PII_PATTERNS after sanitizeText(text) has returned.
RulesAfterSanitize(text) ==
    IF TypeOf(text) # "string" THEN piiPatterns
    ELSE ScanRules(text.v, piiPatterns, 1)

\* ------------------------------------------------------------------------
\* Built-in success handlers
\* ------------------------------------------------------------------------

SUCCESS_HANDLERS ==
    Obj([new |-> Fn("new"), replace |-> Fn("replace"), append |-> Fn("append"),
         prepend |-> Fn("prepend"), tokens |-> Fn("tokens")])

\* The longest title the tokens handler keeps.
TitleMax == 80

\* The document state a handler leaves, and whether it threw.
Effect(d, c, threw) == [draft |-> d, created |-> c, threw |-> threw]

Updated(d) == [d EXCEPT !.updates = @ + 1]

\* The new handler, mutated: the draft it made is never saved.
HandlerNewUnsaved(responseText, d, c) ==
    Effect(d, Append(c, [content |-> responseText, updates |-> 0]), FALSE)

\* SUCCESS_HANDLERS['new']
HandlerNew(responseText, d, c) ==
    Effect(d, Append(c, [content |-> responseText, updates |-> 1]), FALSE)

\* SUCCESS_HANDLERS['replace']
HandlerReplace(responseText, d, c) ==
    Effect(Updated([d EXCEPT !.content = responseText]), c, FALSE)

\* The append handler, mutated: no line break between the two texts.
HandlerAppendNoBreak(responseText, d, c) ==
    Effect(Updated([d EXCEPT !.content = Str(ToText(d.content) \o ToText(responseText))]),
           c, FALSE)

\* SUCCESS_HANDLERS['append']
HandlerAppend(responseText, d, c) ==
    Effect(Updated([d EXCEPT !.content =
                        Str(ToText(d.content) \o <<"\n">> \o ToText(responseText))]),
           c, FALSE)

\* SUCCESS_HANDLERS['prepend']
HandlerPrepend(responseText, d, c) ==
    Effect(Updated([d EXCEPT !.content =
                        Str(ToText(responseText) \o <<"\n">> \o ToText(d.content))]),
           c, FALSE)

\* The tokens handler, mutated: the limit is tested but the title is not cut.
HandlerTokensUncut(responseText, d, c) ==
    IF responseText.t # "string" THEN Effect(d, c, TRUE)
    ELSE LET firstLine == Trim(FirstLine(responseText.v))
         IN  Effect(Updated([d EXCEPT !.tags =
                                 [ai_title |-> Str(firstLine), ai_content |-> responseText]]),
                    c, FALSE)

\* SUCCESS_HANDLERS['tokens']: responseText.split throws on a non-string.
HandlerTokens(responseText, d, c) ==
    IF responseText.t # "string" THEN Effect(d, c, TRUE)
    ELSE LET firstLine == Trim(FirstLine(responseText.v))
             title == IF Len(firstLine) > TitleMax
                      THEN SubSeq(firstLine, 1, TitleMax)
                      ELSE firstLine
         IN  Effect(Updated([d EXCEPT !.tags =
                                 [ai_title |-> Str(title), ai_content |-> responseText]]),
                    c, FALSE)

\* onSuccess(responseText, result): a built-in handler acts on the drafts; the
\* caller's function and an inherited Object.prototype function return
\* without touching them (one caller's function, cbThrows, throws instead);
\* calling a non-function throws a TypeError.
InvokeSuccess(onSuccess, responseText, d, c) ==
    CASE onSuccess.t # "function" -> Effect(d, c, TRUE)
      [] onSuccess = Fn("cbThrows") -> Effect(d, c, TRUE)
      [] onSuccess = Fn("new")     -> HandlerNew(responseText, d, c)
      [] onSuccess = Fn("replace") -> HandlerReplace(responseText, d, c)
      [] onSuccess = Fn("append")  -> HandlerAppend(responseText, d, c)
      [] onSuccess = Fn("prepend") -> HandlerPrepend(responseText, d, c)
      [] onSuccess = Fn("tokens")  -> HandlerTokens(responseText, d, c)
      [] OTHER -> Effect(d, c, FALSE)

\* ------------------------------------------------------------------------
\* What a call does to its collaborators
\* ------------------------------------------------------------------------

EvAdapter(name) == [kind |-> "adapter", name |-> name]
EvCredential(key, label) == [kind |-> "credential", key |-> key, label |-> label]
EvHttp(url, headers, body) ==
    [kind |-> "http", url |-> url, method |-> "POST", headers |-> headers, body |-> body]
EvError(msg) == [kind |-> "onError", msg |-> msg]
EvFail(msg) == [kind |-> "context.fail", msg |-> msg]
EvSuccess(fn, text, raw) == [kind |-> "onSuccess", fn |-> fn, text |-> text, raw |-> raw]
\* What the host answered: cred.authorize() with the stored value, http.request().
EvAuthorized(authorized, value) ==
    [kind |-> "authorized", authorized |-> authorized, value |-> value]
EvResponse(response) == [kind |-> "response", response |-> response]

\* onError(msg): the caller's function, or the default handler, which
\* forwards to context.fail with the engine's prefix.
InvokeError(onError, msg) ==
    IF onError = Fn("defaultOnError")
    THEN <<EvError(msg), EvFail(<<"AI Engine Error: ">> \o msg)>>
    ELSE <<EvError(msg)>>

\* function getApiKey(providerKey, providerDisplayName), up to cred.authorize()
getApiKey(providerKey, providerDisplayName) ==
    EvCredential(providerKey, <<providerDisplayName, " API Key">>)

\* getApiKey after cred.authorize() returned: null when declined, else
\* cred.getValue('api_key').
getApiKeyResult(authorized, value) == IF ~authorized THEN Null ELSE value

\* function httpPost(url, headers, body)
httpPost(url, headers, body) == EvHttp(url, headers, body)

\* ------------------------------------------------------------------------
\* Provider adapters
\* ------------------------------------------------------------------------

\* The four adapters share one shape; these are the places where they differ
\* (key and label are the two arguments of getApiKey).
callAlter ==
    [fn |-> "callAlter", key |-> "AlterHQ", label |-> "AlterHQ", needsKey |-> TRUE,
     endpoint |-> AlterEndpoint, model |-> "OpenAI#gpt-4o",
     path |-> "/chat/completions", envelope |-> "chat"]

callOpenAI ==
    [fn |-> "callOpenAI", key |-> "OpenAI", label |-> "OpenAI", needsKey |-> TRUE,
     endpoint |-> OpenAIEndpoint, model |-> "gpt-4o",
     path |-> "/chat/completions", envelope |-> "chat"]

callAnthropic ==
    [fn |-> "callAnthropic", key |-> "Anthropic", label |-> "Anthropic", needsKey |-> TRUE,
     endpoint |-> AnthropicEndpoint, model |-> "claude-opus-4-6",
     path |-> "/v1/messages", envelope |-> "anthropic"]

\* callOllama, mutated: it asks for a key and sends it as a bearer token.
callOllamaKeyed ==
    [fn |-> "callOllama", key |-> "Ollama", label |-> "Ollama", needsKey |-> TRUE,
     endpoint |-> OllamaEndpoint, model |-> "llama3",
     path |-> "/api/chat", envelope |-> "chat"]

callOllama ==
    [fn |-> "callOllama", key |-> "", label |-> "Ollama", needsKey |-> FALSE,
     endpoint |-> OllamaEndpoint, model |-> "llama3",
     path |-> "/api/chat", envelope |-> "ollama"]

NoAdapter == [fn |-> "none"]

\* max_tokens of the Anthropic request
MaxTokens == 4096

\* The headers of the adapter's request.
Headers(adapter, apiKey) ==
    {<<"Content-Type", <<"application/json">>>>}
    \cup CASE adapter.envelope = "chat" ->
                {<<"Authorization", <<"Bearer ">> \o ToText(apiKey)>>}
           [] adapter.envelope = "anthropic" ->
                {<<"x-api-key", ToText(apiKey)>>,
                 <<"anthropic-version", <<"2023-06-01">>>>}
           [] OTHER -> {}

Message(role, content) == [role |-> role, content |-> content]

\* The body, mutated: the Anthropic request carries its prompt as a system
\* message of the list, as the chat-style requests do.
PayloadSystemInMessages(adapter, model, system, input) ==
    CASE adapter.envelope = "anthropic" ->
            [model |-> model, max_tokens |-> MaxTokens,
             messages |-> <<Message("system", Str(system)), Message("user", input)>>]
      [] adapter.envelope = "ollama" ->
            [model |-> model, stream |-> FALSE,
             messages |-> <<Message("system", Str(system)), Message("user", input)>>]
      [] OTHER ->
            [model |-> model,
             messages |-> <<Message("system", Str(system)), Message("user", input)>>]

\* The JSON body of the adapter's request.
Payload(adapter, model, system, input) ==
    CASE adapter.envelope = "anthropic" ->
            [model |-> model, max_tokens |-> MaxTokens, system |-> Str(system),
             messages |-> <<Message("user", input)>>]
      [] adapter.envelope = "ollama" ->
            [model |-> model, stream |-> FALSE,
             messages |-> <<Message("system", Str(system)), Message("user", input)>>]
      [] OTHER ->
            [model |-> model,
             messages |-> <<Message("system", Str(system)), Message("user", input)>>]

\* The request, mutated: the trailing slash of the endpoint is kept.
AdapterRequestKeepSlash(adapter, providerConfig, params, apiKey) ==
    LET baseUrl == ToText(OrElse(Get(providerConfig, "endpoint"), Str(adapter.endpoint)))
        model   == OrElse(Get(providerConfig, "model"), Str(<<adapter.model>>))
        system  == buildSystemPrompt(params)
    IN  httpPost(baseUrl \o <<adapter.path>>,
                 Headers(adapter, apiKey),
                 Payload(adapter, model, system, OrElse(Get(params, "input"), Str(<<>>))))

\* The adapter from baseUrl to the httpPost call.
AdapterRequest(adapter, providerConfig, params, apiKey) ==
    LET baseUrl == StripTrailingSlash(
                       ToText(OrElse(Get(providerConfig, "endpoint"), Str(adapter.endpoint))))
        model   == OrElse(Get(providerConfig, "model"), Str(<<adapter.model>>))
        system  == buildSystemPrompt(params)
    IN  httpPost(baseUrl \o <<adapter.path>>,
                 Headers(adapter, apiKey),
                 Payload(adapter, model, system, OrElse(Get(params, "input"), Str(<<>>))))

\* What a step of the call leaves: where the call stands next, what it did,
\* the drafts, and whether an exception is propagating.
Step(next, events, d, c, threw) ==
    [pc |-> next, events |-> events, draft |-> d, created |-> c, threw |-> threw]

\* onError(...) where onError is not a function throws a TypeError, and every
\* call of onError stands outside a try block (or in a catch clause): the step
\* stops before that call and the exception leaves callAI.
Uncaught(step, onError) ==
    LET errs == {i \in DOMAIN step.events : step.events[i].kind = "onError"}
    IN  IF TypeOf(onError) = "function" \/ errs = {} THEN step
        ELSE LET first == CHOOSE i \in errs : \A j \in errs : i <= j
             IN  Step("returned", SubSeq(step.events, 1, first - 1),
                      step.draft, step.created, TRUE)

\* The adapter's entry, mutated: the credential is named after the config's
\* model, one stored key per model.
AdapterStartKeyPerModel(adapter, providerConfig, params, d, c) ==
    IF adapter.needsKey
    THEN Step("credential",
              <<EvAdapter(adapter.fn),
                getApiKey(Head(ToText(OrElse(Get(providerConfig, "model"),
                                             Str(<<adapter.model>>)))),
                          adapter.label)>>,
              d, c, FALSE)
    ELSE Step("http",
              <<EvAdapter(adapter.fn), AdapterRequest(adapter, providerConfig, params, Undefined)>>,
              d, c, FALSE)

\* The adapter's entry: the credentialed adapters ask for the key first, the
\* local one goes straight to its request.
AdapterStart(adapter, providerConfig, params, d, c) ==
    IF adapter.needsKey
    THEN Step("credential",
              <<EvAdapter(adapter.fn), getApiKey(adapter.key, adapter.label)>>, d, c, FALSE)
    ELSE Step("http",
              <<EvAdapter(adapter.fn), AdapterRequest(adapter, providerConfig, params, Undefined)>>,
              d, c, FALSE)

\* The key check, mutated: only a declined prompt (null) stops the adapter.
AdapterWithKeyNullOnly(adapter, providerConfig, params, onError, apiKey, d, c) ==
    IF apiKey = Null
    THEN Step("returned",
              InvokeError(onError, <<adapter.label, ": failed to retrieve API key.">>),
              d, c, FALSE)
    ELSE Step("http", <<AdapterRequest(adapter, providerConfig, params, apiKey)>>, d, c, FALSE)

\* The key check, mutated: the return after onError is missing, so the
\* request goes out with the key that was refused.
AdapterWithKeyNoReturn(adapter, providerConfig, params, onError, apiKey, d, c) ==
    IF ~Truthy(apiKey)
    THEN Step("http",
              InvokeError(onError, <<adapter.label, ": failed to retrieve API key.">>)
                  \o <<AdapterRequest(adapter, providerConfig, params, apiKey)>>,
              d, c, FALSE)
    ELSE Step("http", <<AdapterRequest(adapter, providerConfig, params, apiKey)>>, d, c, FALSE)

\* if (!apiKey) { onError(...); return; } and then the request.
AdapterWithKey(adapter, providerConfig, params, onError, apiKey, d, c) ==
    IF ~Truthy(apiKey)
    THEN Step("returned",
              InvokeError(onError, <<adapter.label, ": failed to retrieve API key.">>),
              d, c, FALSE)
    ELSE Step("http", <<AdapterRequest(adapter, providerConfig, params, apiKey)>>, d, c, FALSE)

\* ------------------------------------------------------------------------
\* Response bodies and their decoding
\* ------------------------------------------------------------------------

\* The text every well-formed reply below carries: two lines, by character.
ReplyText == <<"H", "i", "\n", "t", "h", "e", "r", "e">>

BodyBoom            == <<"boom">>
BodyNull            == <<"null">>
BodyEmptyObject     == <<"{}">>
BodyChat            == <<"{\"choices\":[{\"message\":{\"content\":\"Hi\\nthere\"}}]}">>
BodyChatNoChoice    == <<"{\"choices\":[]}">>
BodyChatNoContent   == <<"{\"choices\":[{\"message\":{}}]}">>
BodyAnthropic       == <<"{\"content\":[{\"text\":\"Hi\\nthere\"}]}">>
BodyAnthropicNoText == <<"{\"content\":[{}]}">>
BodyOllama          == <<"{\"message\":{\"content\":\"Hi\\nthere\"}}">>
BodyOllamaNoContent == <<"{\"message\":{}}">>

Bodies ==
    {BodyBoom, BodyNull, BodyEmptyObject, BodyChat, BodyChatNoChoice, BodyChatNoContent,
     BodyAnthropic, BodyAnthropicNoText, BodyOllama, BodyOllamaNoContent}

\* JSON.parse(text) on the bodies above; any other text is a SyntaxError.
JSONParse(text) ==
    CASE text = BodyNull -> Null
      [] text = BodyEmptyObject -> Obj(NoProps)
      [] text = BodyChat ->
            Obj([choices |-> Arr(<<Obj([message |-> Obj([content |-> Str(ReplyText)])])>>)])
      [] text = BodyChatNoChoice -> Obj([choices |-> Arr(<<>>)])
      [] text = BodyChatNoContent ->
            Obj([choices |-> Arr(<<Obj([message |-> Obj(NoProps)])>>)])
      [] text = BodyAnthropic -> Obj([content |-> Arr(<<Obj([text |-> Str(ReplyText)])>>)])
      [] text = BodyAnthropicNoText -> Obj([content |-> Arr(<<Obj(NoProps)>>)])
      [] text = BodyOllama -> Obj([message |-> Obj([content |-> Str(ReplyText)])])
      [] text = BodyOllamaNoContent -> Obj([message |-> Obj(NoProps)])
      [] OTHER -> Thrown("SyntaxError")

\* The field path the adapter reads the reply text from.
Extract(adapter, result) ==
    CASE adapter.envelope = "anthropic" -> Get(Index(Get(result, "content"), 0), "text")
      [] adapter.envelope = "ollama" -> Get(Get(result, "message"), "content")
      [] OTHER -> Get(Get(Index(Get(result, "choices"), 0), "message"), "content")

\* The HTTP collaborator's answer.
Response(success, statusCode, responseText) ==
    [success |-> success, statusCode |-> statusCode, responseText |-> responseText]

Responses ==
    {Response(TRUE, 200, b) : b \in Bodies}
    \cup {Response(FALSE, 500, BodyBoom), Response(FALSE, 401, BodyEmptyObject)}

ParseFailure(adapter, e) == <<adapter.label, ": failed to parse response -- ", e>>

TransportFailure(adapter, response) ==
    <<adapter.label, " API error ">> \o ToText(Num(response.statusCode))
        \o <<": ">> \o response.responseText

\* The adapter after httpPost returned, with the catch clause removed.
AdapterResponseNoCatch(adapter, response, onSuccess, onError, d, c) ==
    IF response.success
    THEN LET result == JSONParse(response.responseText)
             text   == Extract(adapter, result)
             effect == InvokeSuccess(onSuccess, text, d, c)
         IN  CASE text.t = "throw" -> Step("returned", <<>>, d, c, TRUE)
               [] onSuccess.t # "function" -> Step("returned", <<>>, d, c, TRUE)
               [] OTHER -> Step("returned", <<EvSuccess(onSuccess, text, result)>>,
                                effect.draft, effect.created, effect.threw)
    ELSE Step("returned", InvokeError(onError, TransportFailure(adapter, response)),
              d, c, FALSE)

\* The adapter after httpPost returned and retrying a failed transport.
AdapterResponseRetry(adapter, response, onSuccess, onError, d, c) ==
    IF response.success
    THEN AdapterResponseNoCatch(adapter, response, onSuccess, onError, d, c)
    ELSE Step("http", <<httpPost(<<"retry">>, {}, [model |-> Undefined])>>, d, c, FALSE)

\* The adapter after httpPost returned, mutated: the try block ends after
\* the decoding, and the success callback is called outside it.
AdapterResponseCallOutsideTry(adapter, response, onSuccess, onError, d, c) ==
    IF response.success
    THEN LET result == JSONParse(response.responseText)
             text   == Extract(adapter, result)
             effect == InvokeSuccess(onSuccess, text, d, c)
         IN  CASE text.t = "throw" ->
                    Step("returned", InvokeError(onError, ParseFailure(adapter, text.e)),
                         d, c, FALSE)
               [] onSuccess.t # "function" -> Step("returned", <<>>, d, c, TRUE)
               [] OTHER ->
                    Step("returned", <<EvSuccess(onSuccess, text, result)>>,
                         effect.draft, effect.created, effect.threw)
    ELSE Step("returned", InvokeError(onError, TransportFailure(adapter, response)),
              d, c, FALSE)

\* The adapter after httpPost returned: decode and hand over, or report.
\* Everything the try block throws (JSON.parse, the field path, the success
\* callback itself) ends in the catch clause.
AdapterResponse(adapter, response, onSuccess, onError, d, c) ==
    IF response.success
    THEN LET result == JSONParse(response.responseText)
             text   == Extract(adapter, result)
             effect == InvokeSuccess(onSuccess, text, d, c)
         IN  CASE text.t = "throw" ->
                    Step("returned", InvokeError(onError, ParseFailure(adapter, text.e)),
                         d, c, FALSE)
               [] onSuccess.t # "function" ->
                    Step("returned", InvokeError(onError, ParseFailure(adapter, "TypeError")),
                         d, c, FALSE)
               [] effect.threw ->
                    Step("returned",
                         <<EvSuccess(onSuccess, text, result)>>
                             \o InvokeError(onError, ParseFailure(adapter, "TypeError")),
                         effect.draft, effect.created, FALSE)
               [] OTHER ->
                    Step("returned", <<EvSuccess(onSuccess, text, result)>>,
                         effect.draft, effect.created, FALSE)
    ELSE Step("returned", InvokeError(onError, TransportFailure(adapter, response)),
              d, c, FALSE)

\* ------------------------------------------------------------------------
\* Public API: engine.callAI
\* ------------------------------------------------------------------------

\* The property name a one-chunk text denotes in o[text].
KeyOf(s) == IF Len(s.v) = 1 THEN s.v[1] ELSE ""

\* The normalisation, mutated: a call given no params takes the current
\* document's content as its input.
NormaliseParamsFromDraft(params) ==
    IF TypeOf(params) = "string" THEN Obj([input |-> params])
    ELSE IF ~Truthy(params) \/ TypeOf(params) # "object"
         THEN Obj([input |-> draft.content])
    ELSE params

\* Normalise params: plain string -> { input: string }
NormaliseParams(params) ==
    IF TypeOf(params) = "string" THEN Obj([input |-> params])
    ELSE IF ~Truthy(params) \/ TypeOf(params) # "object" THEN Obj(NoProps)
    ELSE params

\* Default error handler
ResolveOnError(onError) ==
    IF TypeOf(onError) # "function" THEN Fn("defaultOnError") ELSE onError

\* The resolution, mutated: a missing success argument falls back to 'replace'.
ResolveOnSuccessDefaultReplace(onSuccess) ==
    IF TypeOf(onSuccess) = "string"
    THEN LET handler == Get(SUCCESS_HANDLERS, KeyOf(onSuccess))
         IN  IF ~Truthy(handler) THEN Undefined ELSE handler
    ELSE IF TypeOf(onSuccess) # "function" THEN Get(SUCCESS_HANDLERS, "replace")
    ELSE onSuccess

\* Resolve onSuccess: keyword string -> built-in handler.  Undefined stands
\* for the failed lookup that makes callAI report the keyword and return.
ResolveOnSuccess(onSuccess) ==
    IF TypeOf(onSuccess) = "string"
    THEN LET handler == Get(SUCCESS_HANDLERS, KeyOf(onSuccess))
         IN  IF ~Truthy(handler) THEN Undefined ELSE handler
    ELSE IF TypeOf(onSuccess) # "function" THEN Get(SUCCESS_HANDLERS, "new")
    ELSE onSuccess

\* providerConfig = MODELS[model] for a string, else the argument itself.
ResolveModel(model) ==
    IF TypeOf(model) = "string" THEN Get(models, KeyOf(model)) ELSE model

UnknownKeyword(onSuccess) ==
    <<"ai-engine: unknown success keyword \"">> \o onSuccess.v
        \o <<"\". Use: new, replace, append, prepend, or tokens.">>

UnknownModel(model) ==
    <<"ai-engine: unknown model \"">> \o model.v \o <<"\". Available: ">>
        \o Join(ObjectKeys(models), <<", ">>)

MissingProvider ==
    <<"ai-engine: config must include a provider field (alter, openai, anthropic, or ollama).">>

UnrecognisedProvider(providerConfig) ==
    <<"ai-engine: unrecognised provider \"">> \o ToText(Get(providerConfig, "provider"))
        \o <<"\". Use alter, openai, anthropic, or ollama.">>

\* The gate, mutated: every field of params is scrubbed.
SanitizationGateAllFields(providerConfig, params) ==
    IF sanitizePII /\ Get(providerConfig, "provider") # Str(<<"ollama">>)
    THEN Obj([input   |-> sanitizeText(OrElse(Get(params, "input"), Str(<<>>))),
              role    |-> sanitizeText(Get(params, "role")),
              goal    |-> sanitizeText(Get(params, "goal")),
              steps   |-> sanitizeText(Get(params, "steps")),
              output  |-> sanitizeText(Get(params, "output")),
              example |-> sanitizeText(Get(params, "example"))])
    ELSE params

\* The gate, mutated: the local provider is scrubbed too.
SanitizationGateEveryProvider(providerConfig, params) ==
    IF sanitizePII
    THEN Obj([input   |-> sanitizeText(OrElse(Get(params, "input"), Str(<<>>))),
              role    |-> Get(params, "role"),
              goal    |-> Get(params, "goal"),
              steps   |-> Get(params, "steps"),
              output  |-> Get(params, "output"),
              example |-> Get(params, "example")])
    ELSE params

\* The gate, mutated: whether the call is local is read off the endpoint.
SanitizationGateByEndpoint(providerConfig, params) ==
    IF sanitizePII
          /\ ~\E h \in {"localhost", "127.0.0.1"} :
                 Contains(ToText(Get(providerConfig, "endpoint")), <<h>>)
    THEN Obj([input   |-> sanitizeText(OrElse(Get(params, "input"), Str(<<>>))),
              role    |-> Get(params, "role"),
              goal    |-> Get(params, "goal"),
              steps   |-> Get(params, "steps"),
              output  |-> Get(params, "output"),
              example |-> Get(params, "example")])
    ELSE params

\* Scrub PII from user input before sending to any cloud provider.
SanitizationGate(providerConfig, params) ==
    IF sanitizePII /\ Get(providerConfig, "provider") # Str(<<"ollama">>)
    THEN Obj([input   |-> sanitizeText(OrElse(Get(params, "input"), Str(<<>>))),
              role    |-> Get(params, "role"),
              goal    |-> Get(params, "goal"),
              steps   |-> Get(params, "steps"),
              output  |-> Get(params, "output"),
              example |-> Get(params, "example")])
    ELSE params

\* The switch, mutated: an unrecognised provider is sent to callOpenAI.
RouteFallbackOpenAI(providerConfig) ==
    LET provider == Get(providerConfig, "provider")
    IN  CASE provider = Str(<<"alter">>)     -> callAlter
          [] provider = Str(<<"anthropic">>) -> callAnthropic
          [] provider = Str(<<"ollama">>)    -> callOllama
          [] OTHER -> callOpenAI

\* The caller's object after the gate, mutated: the gate writes the scrubbed
\* input into the object it was given.
HeldAfterGateInPlace(providerConfig, params) ==
    IF sanitizePII /\ Get(providerConfig, "provider") # Str(<<"ollama">>)
          /\ TypeOf(params) = "object" /\ Truthy(params)
    THEN Obj([k \in DOMAIN params.p \cup {"input"} |->
                 IF k = "input" THEN sanitizeText(OrElse(Get(params, "input"), Str(<<>>)))
                 ELSE params.p[k]])
    ELSE params

\* The caller's params value after the gate: `params = { ... }` binds the
\* local variable to a new object and writes no property of the old one.
HeldAfterGate(providerConfig, params) == params

\* PII_PATTERNS after the gate: sanitizeText runs on the input only, and
\* only where the gate is open.
RulesAfterGate(providerConfig, params) ==
    IF sanitizePII /\ Get(providerConfig, "provider") # Str(<<"ollama">>)
    THEN RulesAfterSanitize(OrElse(Get(params, "input"), Str(<<>>)))
    ELSE piiPatterns

\* The assignments to MODELS after `providerConfig = MODELS[model]`: the
\* lookup is a read, and no other statement of callAI or of an adapter
\* names MODELS or engine.models on its left.
RegistryAfterLookup(model) == modelWrites

\* switch (providerConfig.provider)
Route(providerConfig) ==
    LET provider == Get(providerConfig, "provider")
    IN  CASE provider = Str(<<"alter">>)     -> callAlter
          [] provider = Str(<<"openai">>)    -> callOpenAI
          [] provider = Str(<<"anthropic">>) -> callAnthropic
          [] provider = Str(<<"ollama">>)    -> callOllama
          [] OTHER -> NoAdapter

\* The arguments and locals of a call; held is the caller's params value as
\* the caller finds it after the statements the call has run.
Frame(model, params, onSuccess, onError, providerConfig, p, succ, err, adapter) ==
    [model |-> model, params |-> params, onSuccess |-> onSuccess, onError |-> onError,
     providerConfig |-> providerConfig, p |-> p, succ |-> succ, err |-> err,
     adapter |-> adapter, apiKey |-> Undefined, held |-> params]

NoFrame ==
    Frame(Undefined, Undefined, Undefined, Undefined, Undefined, Undefined,
          Undefined, Undefined, NoAdapter)

\* engine.callAI = function (model, params, onSuccess, onError), up to the
\* first wait for a collaborator (or to its return).
callAI(model, params, onSuccess, onError, d, c) ==
    LET p0   == NormaliseParams(params)
        err  == ResolveOnError(onError)
        succ == ResolveOnSuccess(onSuccess)
        providerConfig == ResolveModel(model)
        p1   == SanitizationGate(providerConfig, p0)
        adapter == Route(providerConfig)
        Abort(msg, cfg) ==
            [frame |-> Frame(model, params, onSuccess, onError, cfg, p0, succ, err, NoAdapter),
             rules |-> piiPatterns,
             step  |-> Step("returned", InvokeError(err, msg), d, c, FALSE)]
    IN  CASE succ = Undefined -> Abort(UnknownKeyword(onSuccess), Undefined)
          [] TypeOf(model) = "string" /\ ~Truthy(providerConfig) ->
                Abort(UnknownModel(model), providerConfig)
          [] ~Truthy(providerConfig) \/ ~Truthy(Get(providerConfig, "provider")) ->
                Abort(MissingProvider, providerConfig)
          [] adapter = NoAdapter ->
                [frame |-> [Frame(model, params, onSuccess, onError, providerConfig, p1,
                                  succ, err, NoAdapter)
                               EXCEPT !.held = HeldAfterGate(providerConfig, params)],
                 rules |-> RulesAfterGate(providerConfig, p0),
                 step  |-> Step("returned",
                                InvokeError(err, UnrecognisedProvider(providerConfig)),
                                d, c, FALSE)]
          [] OTHER ->
                [frame |-> [Frame(model, params, onSuccess, onError, providerConfig, p1,
                                  succ, err, adapter)
                               EXCEPT !.held = HeldAfterGate(providerConfig, params)],
                 rules |-> RulesAfterGate(providerConfig, p0),
                 step  |-> AdapterStart(adapter, providerConfig, p1, d, c)]

\* ------------------------------------------------------------------------
\* The arguments a script passes and the answers the host gives
\* ------------------------------------------------------------------------

\* A text with an e-mail address, a phone number and an employee id in it.
PiiText == <<"write to ", "a@b.com", " or call ", "555-123-4567", " re ", "EMP-12345">>

ModelArgs ==
    {Str(<<"alter-claude-haiku">>), Str(<<"openai-5-mini">>), Str(<<"anthropic-haiku">>),
     Str(<<"ollama-llama3">>), Str(<<"no-such-model">>), Str(<<"constructor">>),
     Obj([provider |-> Str(<<"ollama">>), endpoint |-> Str(<<"https://llm.example.com", "/">>),
          model |-> Str(<<"phi3">>)]),
     Obj([provider |-> Str(<<"openai">>), endpoint |-> Str(<<"http://localhost:8080/v1">>)]),
     Obj([endpoint |-> Str(OpenAIEndpoint), model |-> Str(<<"gpt-4o">>)]),
     Obj([provider |-> Str(<<"gemini">>), endpoint |-> Str(<<"https://llm.example.com">>)]),
     Null}

ParamArgs ==
    {Undefined,
     Str(PiiText),
     Obj([input |-> Str(PiiText),
          role  |-> Str(<<" ", "Editor for ", "a@b.com", "\n">>),
          goal  |-> Str(<<"Reach ", "555-123-4567">>),
          example |-> Str(<<" ">>)]),
     Obj([steps |-> Str(<<"Fix typos">>), output |-> Str(<<"Plain text for ", "10.0.0.1">>)])}

SuccessArgs ==
    {Undefined, Null, Str(<<"new">>), Str(<<"replace">>), Str(<<"append">>), Str(<<"prepend">>),
     Str(<<"tokens">>), Str(<<"not-a-keyword">>), Str(<<"constructor">>), Fn("cb")}

ErrorArgs == {Undefined, Fn("errCb")}

\* The rules a script appends: the sample's employee id rule, and a rule
\* whose pattern matches a label the built-in rules write.
CustomRules == {Rule({"EMP-12345"}, "[EMPLOYEE_ID]"), Rule({"[EMAIL]"}, "[REDACTED]")}

\* The arguments of aiEngine.sanitize: two texts and a value that is no text.
SanitizeArgs ==
    {Str(PiiText),
     Str(<<"ssn ", "123-45-6789", " from ", "10.0.0.1", " card ", "4111 1111 1111 1111">>),
     Null}

\* cred.getValue('api_key') for the credential named key.
CredentialValues(key) == {Undefined, Str(<<>>), Str(<<"sk-", key>>)}

\* ------------------------------------------------------------------------
\* Initial state and actions
\* ------------------------------------------------------------------------

InitialDraft == [content |-> Str(<<"notes">>), tags |-> NoProps, updates |-> 0]

Init ==
    /\ modelWrites = <<>>
    /\ kept = <<>>
    /\ sanitizePII = FALSE
    /\ piiPatterns = BuiltinPatterns
    /\ draft = InitialDraft
    /\ created = <<>>
    /\ pc = "idle"
    /\ frame = NoFrame
    /\ trace = <<>>
    /\ escaped = FALSE
    /\ calls = 0

\* aiEngine.sanitizePII = b
SetSanitizePII(b) ==
    /\ pc = "idle"
    /\ b # sanitizePII
    /\ sanitizePII' = b
    /\ UNCHANGED <<modelWrites, kept, piiPatterns, draft, created, pc, frame, trace, escaped, calls>>

\* aiEngine.piiPatterns.push(rule)
PushPattern(rule) ==
    /\ pc = "idle"
    /\ Len(piiPatterns) < Len(BuiltinPatterns) + MaxPushed
    /\ piiPatterns' = Append(piiPatterns, rule)
    /\ UNCHANGED <<modelWrites, kept, sanitizePII, draft, created, pc, frame, trace, escaped, calls>>

\* aiEngine.sanitize(text): engine.sanitize is sanitizeText.
Sanitize(text) ==
    /\ pc = "idle"
    /\ pc' = "sanitized"
    /\ trace' = <<[kind |-> "sanitize", text |-> text, result |-> sanitizeText(text)]>>
    /\ piiPatterns' = RulesAfterSanitize(text)
    /\ UNCHANGED <<modelWrites, kept, sanitizePII, draft, created, frame, escaped, calls>>

\* aiEngine.callAI(model, params, onSuccess, onError) is entered and runs to
\* its first wait or to its return.
CallAI(model, params, onSuccess, onError) ==
    /\ pc = "idle"
    /\ calls < MaxCalls
    /\ LET r == callAI(model, params, onSuccess, onError, draft, created)
       IN  /\ frame' = r.frame
           /\ trace' = r.step.events
           /\ pc' = r.step.pc
           /\ draft' = r.step.draft
           /\ created' = r.step.created
           /\ escaped' = r.step.threw
           /\ piiPatterns' = r.rules
    /\ modelWrites' = RegistryAfterLookup(model)
    /\ calls' = calls + 1
    /\ UNCHANGED <<kept, sanitizePII>>

\* cred.authorize() returns and the adapter goes on to its request.
AuthorizeReturns(authorized, value) ==
    /\ pc = "credential"
    /\ LET apiKey == getApiKeyResult(authorized, value)
           s == Uncaught(AdapterWithKey(frame.adapter, frame.providerConfig, frame.p,
                                        frame.err, apiKey, draft, created),
                         frame.err)
       IN  /\ frame' = [frame EXCEPT !.apiKey = apiKey]
           /\ trace' = trace \o <<EvAuthorized(authorized, value)>> \o s.events
           /\ pc' = s.pc
           /\ draft' = s.draft
           /\ created' = s.created
           /\ escaped' = s.threw
    /\ UNCHANGED <<modelWrites, kept, sanitizePII, piiPatterns, calls>>

\* http.request(...) returns and the adapter decodes the answer.
HttpReturns(response) ==
    /\ pc = "http"
    /\ LET s == Uncaught(AdapterResponse(frame.adapter, response, frame.succ, frame.err,
                                         draft, created),
                         frame.err)
       IN  /\ trace' = trace \o <<EvResponse(response)>> \o s.events
           /\ pc' = s.pc
           /\ draft' = s.draft
           /\ created' = s.created
           /\ escaped' = s.threw
    /\ UNCHANGED <<modelWrites, kept, sanitizePII, piiPatterns, frame, calls>>

\* callAI (or sanitize) has returned to the script.
Return ==
    /\ pc \in {"returned", "sanitized"}
    /\ pc' = "idle"
    /\ frame' = NoFrame
    /\ trace' = <<>>
    /\ escaped' = FALSE
    /\ UNCHANGED <<modelWrites, kept, sanitizePII, piiPatterns, draft, created, calls>>

\* The credential the running call is waiting for.
RequestedKey == IF pc = "credential" THEN trace[Len(trace)].key ELSE "none"

Next ==
    \/ \E b \in BOOLEAN : SetSanitizePII(b)
    \/ \E rule \in CustomRules : PushPattern(rule)
    \/ \E text \in SanitizeArgs : Sanitize(text)
    \/ /\ pc = "idle"
       /\ \E model \in ModelArgs, params \in ParamArgs,
             onSuccess \in SuccessArgs, onError \in ErrorArgs :
               CallAI(model, params, onSuccess, onError)
    \/ \E value \in CredentialValues(RequestedKey) : AuthorizeReturns(TRUE, value)
    \/ AuthorizeReturns(FALSE, Undefined)
    \/ \E response \in Responses : HttpReturns(response)
    \/ Return

Spec == Init /\ [][Next]_vars

\* ------------------------------------------------------------------------
\* The snapshot of the module that reaches OpenAI and Anthropic through the
\* host's built-in OpenAI and AnthropicAI classes.  It has no sanitizer, no
\* success keywords and no argument defaults; its callAlter and callOllama
\* are the adapters above (callAlter falls back to another default endpoint).
\* ------------------------------------------------------------------------

callAlter_builtin == [callAlter EXCEPT !.endpoint = <<"https://alterhq.com/api">>]

\* callOpenAI and callAnthropic of the snapshot: no key, no endpoint; the
\* class takes the path and the data.
callOpenAI_builtin ==
    [fn |-> "callOpenAI", key |-> "", label |-> "OpenAI", needsKey |-> FALSE, class |-> "OpenAI",
     endpoint |-> <<>>, model |-> "gpt-4o", path |-> "/chat/completions",
     envelope |-> "chat"]

callAnthropic_builtin ==
    [fn |-> "callAnthropic", key |-> "", label |-> "Anthropic", needsKey |-> FALSE,
     class |-> "AnthropicAI",
     endpoint |-> <<>>, model |-> "claude-opus-4-6", path |-> "/v1/messages",
     envelope |-> "anthropic"]

BuiltinClients == {callOpenAI_builtin, callAnthropic_builtin}

\* ai.request({ method: 'POST', url: ..., data: ... }) on the host's class
EvClassRequest(class, url, body) ==
    [kind |-> "class.request", class |-> class, url |-> url, method |-> "POST", body |-> body]

\* The adapter from model to the ai.request call.
ClassRequest(adapter, providerConfig, params) ==
    LET model  == OrElse(Get(providerConfig, "model"), Str(<<adapter.model>>))
        system == buildSystemPrompt(params)
    IN  EvClassRequest(adapter.class, <<adapter.path>>,
                       Payload(adapter, model, system, OrElse(Get(params, "input"), Str(<<>>))))

\* The message of the snapshot's callOpenAI and callAnthropic when the class
\* reports no success: ai.lastError, else the status code, else 'no response'.
ClassFailure(adapter, response, lastError) ==
    <<adapter.label, " error: ">>
        \o ToText(OrElse(lastError,
                         IF response # Undefined THEN Num(response.statusCode)
                         ELSE Str(<<"no response">>)))

\* The adapter after ai.request returned.
ClassResponse(adapter, response, lastError, onSuccess, onError, d, c) ==
    IF response # Undefined /\ response.success
    THEN AdapterResponse(adapter, response, onSuccess, onError, d, c)
    ELSE Step("returned", InvokeError(onError, ClassFailure(adapter, response, lastError)),
              d, c, FALSE)

\* switch (providerConfig.provider) of the snapshot
Route_builtin(providerConfig) ==
    LET provider == Get(providerConfig, "provider")
    IN  CASE provider = Str(<<"alter">>)     -> callAlter_builtin
          [] provider = Str(<<"openai">>)    -> callOpenAI_builtin
          [] provider = Str(<<"anthropic">>) -> callAnthropic_builtin
          [] provider = Str(<<"ollama">>)    -> callOllama
          [] OTHER -> NoAdapter

\* engine.callAI of the snapshot, up to the first wait for a collaborator.
callAI_builtin(model, params, onSuccess, onError, d, c) ==
    LET providerConfig == ResolveModel(model)
        adapter == Route_builtin(providerConfig)
        Leave(msg, cfg) ==
            [frame |-> Frame(model, params, onSuccess, onError, cfg, params,
                             onSuccess, onError, NoAdapter),
             step  |-> Step("returned", InvokeError(onError, msg), d, c, FALSE)]
    IN  CASE TypeOf(model) = "string" /\ ~Truthy(providerConfig) ->
                Leave(UnknownModel(model), providerConfig)
          [] ~Truthy(providerConfig) \/ ~Truthy(Get(providerConfig, "provider")) ->
                Leave(MissingProvider, providerConfig)
          [] adapter = NoAdapter ->
                Leave(UnrecognisedProvider(providerConfig), providerConfig)
          [] OTHER ->
                [frame |-> Frame(model, params, onSuccess, onError, providerConfig, params,
                                 onSuccess, onError, adapter),
                 step  |-> IF adapter \in BuiltinClients
                           THEN Step("class",
                                     <<EvAdapter(adapter.fn),
                                       ClassRequest(adapter, providerConfig, params)>>,
                                     d, c, FALSE)
                           ELSE AdapterStart(adapter, providerConfig, params, d, c)]

\* The snapshot documents params as an object and both callbacks as
\* functions; these are the calls it is given.
ParamArgs_builtin == {p \in ParamArgs : TypeOf(p) = "object" /\ Truthy(p)}

\* ai.lastError after a request
LastErrors == {Undefined, Str(<<"The request timed out.">>)}

\* aiEngine.callAI(model, params, onSuccess, onError) of the snapshot.
CallAI_builtin(model, params, onSuccess, onError) ==
    /\ pc = "idle"
    /\ calls < MaxCalls
    /\ LET r == callAI_builtin(model, params, onSuccess, onError, draft, created)
       IN  /\ frame' = r.frame
           /\ trace' = r.step.events
           /\ pc' = r.step.pc
           /\ draft' = r.step.draft
           /\ created' = r.step.created
           /\ escaped' = r.step.threw
    /\ calls' = calls + 1
    /\ UNCHANGED <<modelWrites, kept, sanitizePII, piiPatterns>>

\* ai.request(...) returns and the adapter decodes the answer.
ClassReturns(response, lastError) ==
    /\ pc = "class"
    /\ LET s == ClassResponse(frame.adapter, response, lastError, frame.succ, frame.err,
                              draft, created)
       IN  /\ trace' = trace \o <<EvResponse(response)>> \o s.events
           /\ pc' = s.pc
           /\ draft' = s.draft
           /\ created' = s.created
           /\ escaped' = s.threw
    /\ UNCHANGED <<modelWrites, kept, sanitizePII, piiPatterns, frame, calls>>

Next_builtin ==
    \/ /\ pc = "idle"
       /\ \E model \in ModelArgs, params \in ParamArgs_builtin :
               CallAI_builtin(model, params, Fn("cb"), Fn("errCb"))
    \/ \E value \in CredentialValues(RequestedKey) : AuthorizeReturns(TRUE, value)
    \/ AuthorizeReturns(FALSE, Undefined)
    \/ \E response \in Responses : HttpReturns(response)
    \/ \E response \in Responses \cup {Undefined}, lastError \in LastErrors :
            ClassReturns(response, lastError)
    \/ Return

Spec_builtin == Init /\ [][Next_builtin]_vars

\* ------------------------------------------------------------------------
\* The earliest version of the module (ai-engine.js): the registry entries
\* and configs carry no provider field, the provider is detected from the
\* endpoint, and callAI takes its four arguments as they are (no defaults).
\* ------------------------------------------------------------------------

AlterEndpoint_sniff == <<"https://", "alterhq.com", "/api">>

\* const MODELS = { ... }: the same keys and models, { endpoint, model } each.
MODELS_sniff ==
    Obj([k \in {ModelTable[i][1] : i \in DOMAIN ModelTable} |->
            LET i == CHOOSE j \in DOMAIN ModelTable : ModelTable[j][1] = k
            IN  Obj([endpoint |-> Str(IF ModelTable[i][2] = "alter"
                                      THEN AlterEndpoint_sniff ELSE ModelTable[i][3]),
                     model |-> Str(<<ModelTable[i][4]>>)])])

\* String.prototype.toLowerCase, chunk by chunk.
ToLowerCase(text) ==
    [i \in DOMAIN text |->
        CASE text[i] = "HTTP://" -> "http://"
          [] text[i] = "LOCALHOST" -> "localhost"
          [] OTHER -> text[i]]

\* function detectProvider(endpoint); toLowerCase throws on a non-string.
detectProvider(endpoint) ==
    IF ~Truthy(endpoint) THEN Str(<<"unknown">>)
    ELSE IF endpoint.t # "string" THEN Thrown("TypeError")
    ELSE LET url == ToLowerCase(endpoint.v)
         IN  IF Contains(url, <<"alterhq.com">>) THEN Str(<<"alter">>)
             ELSE IF Contains(url, <<"openai.com">>) THEN Str(<<"openai">>)
             ELSE IF Contains(url, <<"anthropic.com">>) THEN Str(<<"anthropic">>)
             ELSE IF \/ Contains(url, <<"localhost">>)
                     \/ Contains(url, <<"127.0.0.1">>)
                     \/ Contains(url, <<"ollama">>) THEN Str(<<"ollama">>)
             ELSE Str(<<"openai">>)

callAlter_sniff ==
    [callAlter EXCEPT !.key = "AlterHQ API", !.endpoint = AlterEndpoint_sniff]
callOpenAI_sniff == [callOpenAI EXCEPT !.key = "openai"]
callAnthropic_sniff == [callAnthropic EXCEPT !.key = "anthropic"]

\* switch (provider)
Route_sniff(provider) ==
    CASE provider = Str(<<"alter">>)     -> callAlter_sniff
      [] provider = Str(<<"openai">>)    -> callOpenAI_sniff
      [] provider = Str(<<"anthropic">>) -> callAnthropic_sniff
      [] provider = Str(<<"ollama">>)    -> callOllama
      [] OTHER -> NoAdapter

MissingEndpoint ==
    <<"ai-engine: a valid model shorthand or config object with an endpoint is required.">>

UnrecognisedEndpoint(providerConfig) ==
    <<"ai-engine: unrecognised provider endpoint \"">>
        \o ToText(Get(providerConfig, "endpoint")) \o <<"\".">>

\* aiEngine.callAI of this version, up to the first wait for a collaborator.
callAI_sniff(model, params, onSuccess, onError, d, c) ==
    LET providerConfig ==
            IF TypeOf(model) = "string"
            THEN Get(Written(MODELS_sniff, modelWrites), KeyOf(model)) ELSE model
        provider == detectProvider(Get(providerConfig, "endpoint"))
        adapter  == Route_sniff(provider)
        Leave(msg) ==
            [frame |-> Frame(model, params, onSuccess, onError, providerConfig, params,
                             onSuccess, onError, NoAdapter),
             step  |-> Uncaught(Step("returned", InvokeError(onError, msg), d, c, FALSE),
                                onError)]
    IN  CASE TypeOf(model) = "string" /\ ~Truthy(providerConfig) -> Leave(UnknownModel(model))
          [] ~Truthy(providerConfig) \/ ~Truthy(Get(providerConfig, "endpoint")) ->
                Leave(MissingEndpoint)
          [] provider.t = "throw" ->
                [frame |-> Frame(model, params, onSuccess, onError, providerConfig, params,
                                 onSuccess, onError, NoAdapter),
                 step  |-> Step("returned", <<>>, d, c, TRUE)]
          [] adapter = NoAdapter -> Leave(UnrecognisedEndpoint(providerConfig))
          [] OTHER ->
                [frame |-> Frame(model, params, onSuccess, onError, providerConfig, params,
                                 onSuccess, onError, adapter),
                 step  |-> AdapterStart(adapter, providerConfig, params, d, c)]

\* The configs this version is given: shorthands, and { endpoint, model }
\* objects for each host the detection looks for and for one it does not.
ModelArgs_sniff ==
    {Str(<<"alter-claude-haiku">>), Str(<<"openai-5-mini">>), Str(<<"anthropic-haiku">>),
     Str(<<"ollama-llama3">>), Str(<<"no-such-model">>),
     Obj([endpoint |-> Str(<<"HTTP://", "LOCALHOST", ":11434", "/">>), model |-> Str(<<"phi3">>)]),
     Obj([endpoint |-> Str(<<"http://", "127.0.0.1", ":11434">>)]),
     Obj([endpoint |-> Str(<<"https://", "ollama", ".example.com">>)]),
     Obj([endpoint |-> Str(<<"https://llm.example.com">>), model |-> Str(<<"phi3">>)]),
     Obj([endpoint |-> Str(AnthropicEndpoint)]),
     Obj([endpoint |-> Str(OpenAIEndpoint), model |-> Str(<<"gpt-4o">>)]),
     Obj([endpoint |-> Str(AlterEndpoint_sniff)]),
     Obj([endpoint |-> Num(8080)]),
     Obj([model |-> Str(<<"gpt-4o">>)]),
     Null}

\* aiEngine.callAI(model, params, onSuccess, onError) of this version.
CallAI_sniff(model, params, onSuccess, onError) ==
    /\ pc = "idle"
    /\ calls < MaxCalls
    /\ LET r == callAI_sniff(model, params, onSuccess, onError, draft, created)
       IN  /\ frame' = r.frame
           /\ trace' = r.step.events
           /\ pc' = r.step.pc
           /\ draft' = r.step.draft
           /\ created' = r.step.created
           /\ escaped' = r.step.threw
    /\ calls' = calls + 1
    /\ UNCHANGED <<modelWrites, kept, sanitizePII, piiPatterns>>

Next_sniff ==
    \/ /\ pc = "idle"
       /\ \E model \in ModelArgs_sniff, params \in ParamArgs_builtin, onError \in ErrorArgs :
               CallAI_sniff(model, params, Fn("cb"), onError)
    \/ \E value \in CredentialValues(RequestedKey) : AuthorizeReturns(TRUE, value)
    \/ AuthorizeReturns(FALSE, Undefined)
    \/ \E response \in Responses : HttpReturns(response)
    \/ Return

Spec_sniff == Init /\ [][Next_sniff]_vars

\* ------------------------------------------------------------------------
\* buildSystemPrompt on its own: a script's params, then the assembly.
\* ------------------------------------------------------------------------

\* The values a field of params is given: the empty text, a blank one, a
\* text with blanks around and inside it, a plain one.
FieldValues ==
    {Str(<<>>), Str(<<" ", "\n">>), Str(<<" ", "Edit", " ", "this", "\n">>), Str(<<"x">>)}

\* The params records: every subset of the five fields, every value each.
PromptParams ==
    UNION {[F -> FieldValues] : F \in SUBSET {Sections[i][2] : i \in DOMAIN Sections}}

Init_prompt ==
    /\ modelWrites = <<>>
    /\ kept = <<>>
    /\ sanitizePII = FALSE
    /\ piiPatterns = BuiltinPatterns
    /\ draft = InitialDraft
    /\ created = <<>>
    /\ pc = "params"
    /\ frame \in {[params |-> Obj(f)] : f \in PromptParams}
    /\ trace = <<>>
    /\ escaped = FALSE
    /\ calls = 0

\* var system = buildSystemPrompt(params)
BuildSystemPrompt ==
    /\ pc = "params"
    /\ pc' = "assembled"
    /\ trace' = <<[kind |-> "prompt", text |-> buildSystemPrompt(frame.params)]>>
    /\ UNCHANGED <<modelWrites, kept, sanitizePII, piiPatterns, draft, created, frame, escaped, calls>>

Next_prompt == BuildSystemPrompt

Spec_prompt == Init_prompt /\ [][Next_prompt]_vars

\* ------------------------------------------------------------------------
\* sanitizeText on its own: a rule list (the built-in rules and what a
\* script pushed after them), a text, and sanitize applied once and again.
\* ------------------------------------------------------------------------

\* The number of rules pushed after the built-in ones.
MaxRules == 2

\* The length of the texts, in chunks.
MaxText == 2

\* The chunks of the texts, which are also what the pushed rules match and
\* write: an address, the label the built-in rule writes for it, an id.
Chunks == {"a@b.com", "[EMAIL]", "EMP-12345"}

PushedRules == {Rule({x}, y) : x, y \in Chunks}

SeqsUpTo(S, n) == UNION {[1..k -> S] : k \in 0..n}

RuleLists == {BuiltinPatterns \o pushed : pushed \in SeqsUpTo(PushedRules, MaxRules)}

Texts == {Str(t) : t \in SeqsUpTo(Chunks, MaxText)} \cup {Null}

Init_sanitize ==
    /\ modelWrites = <<>>
    /\ kept = <<>>
    /\ sanitizePII = FALSE
    /\ piiPatterns \in RuleLists
    /\ draft = InitialDraft
    /\ created = <<>>
    /\ pc = "text"
    /\ frame \in {[text |-> x] : x \in Texts}
    /\ trace = <<>>
    /\ escaped = FALSE
    /\ calls = 0

\* var once = aiEngine.sanitize(text)
SanitizeOnce ==
    /\ pc = "text"
    /\ pc' = "once"
    /\ trace' = <<sanitizeText(frame.text)>>
    /\ piiPatterns' = RulesAfterSanitize(frame.text)
    /\ UNCHANGED <<modelWrites, kept, sanitizePII, draft, created, frame, escaped, calls>>

\* var twice = aiEngine.sanitize(once)
SanitizeTwice ==
    /\ pc = "once"
    /\ pc' = "twice"
    /\ trace' = Append(trace, sanitizeText(trace[1]))
    /\ piiPatterns' = RulesAfterSanitize(trace[1])
    /\ UNCHANGED <<modelWrites, kept, sanitizePII, draft, created, frame, escaped, calls>>

Next_sanitize == SanitizeOnce \/ SanitizeTwice

Spec_sanitize == Init_sanitize /\ [][Next_sanitize]_vars

\* ------------------------------------------------------------------------
\* The tokens handler on its own: a reply text, then the handler.
\* ------------------------------------------------------------------------

\* How far past TitleMax the first lines of the replies reach.
MaxOver == 2

\* A line of n characters; with a gap, the character at TitleMax is a blank.
Line(n, gap) == [i \in 1..n |-> IF gap /\ i = TitleMax THEN " " ELSE "a"]

LineLengths == {0, 1} \cup ((TitleMax - 1)..(TitleMax + MaxOver))

\* The replies: a first line, bare or with blanks before and after it, alone
\* or followed by a line break and more text; and three values that are no
\* text.
ReplyTexts ==
    {Str(before \o Line(n, gap) \o after \o rest) :
        n \in LineLengths, gap \in BOOLEAN,
        before \in {<<>>, <<" ">>, <<" ", "\t">>},
        after \in {<<>>, <<" ">>},
        rest \in {<<>>, <<"\n">>, <<"\n", " ", "b", "\n", "c">>}}
    \cup {Undefined, Null, Num(7)}

Init_tokens ==
    /\ modelWrites = <<>>
    /\ kept = <<>>
    /\ sanitizePII = FALSE
    /\ piiPatterns = BuiltinPatterns
    /\ draft = InitialDraft
    /\ created = <<>>
    /\ pc = "reply"
    /\ frame \in {[responseText |-> x] : x \in ReplyTexts}
    /\ trace = <<>>
    /\ escaped = FALSE
    /\ calls = 0

\* SUCCESS_HANDLERS['tokens'](responseText)
HandleTokens ==
    /\ pc = "reply"
    /\ pc' = "tagged"
    /\ LET effect == HandlerTokens(frame.responseText, draft, created)
       IN  /\ draft' = effect.draft
           /\ created' = effect.created
           /\ escaped' = effect.threw
    /\ UNCHANGED <<modelWrites, kept, sanitizePII, piiPatterns, frame, trace, calls>>

Next_tokens == HandleTokens

Spec_tokens == Init_tokens /\ [][Next_tokens]_vars

\* ------------------------------------------------------------------------
\* callAI over the provider kinds: configs of every kind on every sort of
\* endpoint, and the shorthands of every kind.
\* ------------------------------------------------------------------------

\* Endpoints: the four defaults, another loopback address, a remote host.
Endpoints_kinds ==
    {AlterEndpoint, OpenAIEndpoint, AnthropicEndpoint, OllamaEndpoint,
     <<"http://", "127.0.0.1", ":8080", "/">>, <<"https://", "llm.example.com">>}

ModelArgs_kinds ==
    {Obj([provider |-> kind, endpoint |-> Str(e), model |-> Str(<<m>>)]) :
        kind \in {Str(<<"alter">>), Str(<<"openai">>), Str(<<"anthropic">>), Str(<<"ollama">>)},
        e \in Endpoints_kinds, m \in {"phi3", "gpt-4o"}}
    \cup {Obj([provider |-> Str(<<"openai">>)]), Obj([provider |-> Str(<<"anthropic">>)])}
    \cup {Str(<<k>>) : k \in {"alter-openai-4o", "alter-claude-haiku", "openai-5-mini",
                              "openai-5-nano", "anthropic-opus", "anthropic-haiku",
                              "ollama-llama3", "ollama-mistral"}}

Next_kinds ==
    \/ \E b \in BOOLEAN : SetSanitizePII(b)
    \/ /\ pc = "idle"
       /\ \E model \in ModelArgs_kinds, onSuccess \in {Fn("cb"), Str(<<"replace">>)} :
               CallAI(model, Str(PiiText), onSuccess, Fn("errCb"))
    \/ \E value \in CredentialValues(RequestedKey) : AuthorizeReturns(TRUE, value)
    \/ AuthorizeReturns(FALSE, Undefined)
    \/ \E response \in Responses : HttpReturns(response)
    \/ Return

Spec_kinds == Init /\ [][Next_kinds]_vars

\* ------------------------------------------------------------------------
\* callAI with success callbacks that throw: a function of the script that
\* throws, and the tokens handler, which throws when the reply is no text.
\* ------------------------------------------------------------------------

SuccessArgs_throws == {Fn("cbThrows"), Fn("cb"), Str(<<"tokens">>)}

Next_throws ==
    \/ \E b \in BOOLEAN : SetSanitizePII(b)
    \/ /\ pc = "idle"
       /\ \E model \in ModelArgs, params \in ParamArgs,
             onSuccess \in SuccessArgs_throws, onError \in ErrorArgs :
               CallAI(model, params, onSuccess, onError)
    \/ \E value \in CredentialValues(RequestedKey) : AuthorizeReturns(TRUE, value)
    \/ AuthorizeReturns(FALSE, Undefined)
    \/ \E response \in Responses : HttpReturns(response)
    \/ Return

Spec_throws == Init /\ [][Next_throws]_vars

\* ------------------------------------------------------------------------
\* callAI again and again: a script that makes several calls, with flag
\* changes, rule pushes and aiEngine.sanitize calls between them.  One of
\* the calls that returned is kept, so that a later call can be held
\* against it.
\* ------------------------------------------------------------------------

\* The calls a script makes.
MaxRepeat == 3

ModelArgs_twice == {Str(<<"alter-claude-haiku">>), Str(<<"ollama-llama3">>)}
ParamArgs_twice ==
    {Undefined, Str(PiiText),
     Obj([input |-> Str(PiiText), role |-> Str(<<"Editor for ", "a@b.com">>)])}
SuccessArgs_twice == {Str(<<"replace">>), Fn("cb")}

\* The answers of the provider: a reply in either format, and a failure.
Responses_twice ==
    {Response(TRUE, 200, BodyChat), Response(TRUE, 200, BodyOllama),
     Response(FALSE, 500, BodyBoom)}

\* aiEngine.callAI(model, params, onSuccess, onError), one of several.
CallAI_twice(model, params, onSuccess, onError) ==
    /\ pc = "idle"
    /\ calls < MaxRepeat
    /\ LET r == callAI(model, params, onSuccess, onError, draft, created)
       IN  /\ frame' = r.frame
           /\ trace' = r.step.events
           /\ pc' = r.step.pc
           /\ draft' = r.step.draft
           /\ created' = r.step.created
           /\ escaped' = r.step.threw
           /\ piiPatterns' = r.rules
    /\ modelWrites' = RegistryAfterLookup(model)
    /\ calls' = calls + 1
    /\ UNCHANGED <<kept, sanitizePII>>

\* What is kept of a call: its four arguments, the flag and the rule list
\* it ran under, and all it did and was answered.
KeptCall ==
    [model |-> frame.model, params |-> frame.params, onSuccess |-> frame.onSuccess,
     onError |-> frame.onError, sanitizePII |-> sanitizePII, piiPatterns |-> piiPatterns,
     trace |-> trace]

\* callAI has returned to the script, and this call is the one kept.
ReturnKept ==
    /\ pc = "returned"
    /\ kept = <<>>
    /\ kept' = <<KeptCall>>
    /\ pc' = "idle"
    /\ frame' = NoFrame
    /\ trace' = <<>>
    /\ escaped' = FALSE
    /\ UNCHANGED <<modelWrites, sanitizePII, piiPatterns, draft, created, calls>>

Next_twice ==
    \/ \E b \in BOOLEAN : SetSanitizePII(b)
    \/ PushPattern(Rule({"EMP-12345"}, "[EMPLOYEE_ID]"))
    \/ Sanitize(Str(PiiText))
    \/ /\ pc = "idle"
       /\ \E model \in ModelArgs_twice, params \in ParamArgs_twice,
             onSuccess \in SuccessArgs_twice :
               CallAI_twice(model, params, onSuccess, Fn("errCb"))
    \/ AuthorizeReturns(TRUE, Str(<<"sk-", RequestedKey>>))
    \/ AuthorizeReturns(FALSE, Undefined)
    \/ \E response \in Responses_twice : HttpReturns(response)
    \/ Return
    \/ ReturnKept

Spec_twice == Init /\ [][Next_twice]_vars

\* ------------------------------------------------------------------------
\* Properties
\* ------------------------------------------------------------------------

\* The positions of the trace that hold an event of the kind.
Of(kind) == {i \in DOMAIN trace : trace[i].kind = kind}

InCall == pc \notin {"idle", "sanitized"}

RegistryKeys == DOMAIN MODELS.p
Keywords == DOMAIN SUCCESS_HANDLERS.p

\* The caller's params after normalisation, before the gate.
CallerParams == NormaliseParams(frame.params)
CallerInput == Get(CallerParams, "input")

\* The content of the user message of a request body.
UserContent(body) == body.messages[Len(body.messages)].content

\* The system prompt of a request body.
SystemContent(body) ==
    IF "system" \in DOMAIN body THEN body.system ELSE body.messages[1].content

PromptFields == {"role", "goal", "steps", "output", "example"}

\* C1: a call whose model string is not a key of the registry (and whose
\* success argument resolves) reports an error that lists every registry key,
\* never calls the success callback and asks for no credential and sends no
\* request.
C1_UnknownModelListsKeys ==
    (/\ pc = "returned"
     /\ TypeOf(frame.model) = "string"
     /\ KeyOf(frame.model) \notin RegistryKeys
     /\ frame.succ # Undefined)
        => /\ \E i \in Of("onError") :
                \A k \in RegistryKeys : Contains(trace[i].msg, <<k>>)
           /\ Of("onSuccess") = {}
           /\ Of("credential") = {}
           /\ Of("http") = {}

\* C2: with a registry model, a success argument that is a string other than
\* the five keywords is reported with the keyword cited, and the call stops
\* there: no adapter, no credential, no request, no success handler.
C2_UnknownKeywordAborts ==
    (/\ InCall
     /\ TypeOf(frame.model) = "string"
     /\ KeyOf(frame.model) \in RegistryKeys
     /\ TypeOf(frame.onSuccess) = "string"
     /\ KeyOf(frame.onSuccess) \notin Keywords)
        => /\ pc = "returned"
           /\ \E i \in Of("onError") : Contains(trace[i].msg, frame.onSuccess.v)
           /\ Of("adapter") = {}
           /\ Of("credential") = {}
           /\ Of("http") = {}
           /\ Of("onSuccess") = {}

\* The running call was routed to one of the three cloud adapters.
Cloud == frame.adapter \in {callAlter, callOpenAI, callAnthropic}

\* C3: with sanitizePII on and a cloud provider, the user message of the
\* request is sanitize(input) (the empty text when no input was given), and
\* role, goal, steps, output and example reach the adapter as supplied: the
\* system prompt is assembled from the caller's own fields.
C3_CloudInputSanitized ==
    (InCall /\ sanitizePII /\ Cloud)
        => /\ \A f \in PromptFields : Get(frame.p, f) = Get(CallerParams, f)
           /\ \A i \in Of("http") :
                /\ UserContent(trace[i].body) =
                       IF TypeOf(CallerInput) = "string"
                       THEN sanitizeText(CallerInput) ELSE Str(<<>>)
                /\ SystemContent(trace[i].body) = Str(buildSystemPrompt(CallerParams))

\* A cloud request went out whose input was rewritten by the sanitizer while
\* the role, which holds an address too, went out as written.
C3_Witness ==
    /\ sanitizePII /\ Cloud
    /\ \E i \in Of("http") :
          /\ UserContent(trace[i].body) # CallerInput
          /\ Contains(UserContent(trace[i].body).v, <<"[EMAIL]">>)
          /\ Contains(SystemContent(trace[i].body).v, <<"a@b.com">>)

\* C4: with the local provider the user message of the request is the
\* caller's input as given, whatever the flag and the rule list.
C4_LocalInputUntouched ==
    (InCall /\ frame.adapter = callOllama)
        => \A i \in Of("http") :
              UserContent(trace[i].body) = OrElse(CallerInput, Str(<<>>))

\* A local request went out with its addresses in it, with the flag on and a
\* rule appended to the list.
C4_Witness ==
    /\ frame.adapter = callOllama
    /\ sanitizePII
    /\ Len(piiPatterns) > Len(BuiltinPatterns)
    /\ \E i \in Of("http") :
          /\ UserContent(trace[i].body) = Str(PiiText)
          /\ sanitizeText(Str(PiiText)) # Str(PiiText)

\* The name each adapter gives its provider in its messages.
ProviderName ==
    [callAlter |-> "AlterHQ", callOpenAI |-> "OpenAI",
     callAnthropic |-> "Anthropic", callOllama |-> "Ollama"]

Routed == frame.adapter # NoAdapter

\* The answers of the HTTP collaborator the running call has received.
Answers == {trace[i].response : i \in Of("response")}

C6_MalformedBodyReported ==
    \A r \in Answers :
        (r.success /\ JSONParse(r.responseText) = Thrown("SyntaxError"))
            => /\ \E i \in Of("onError") :
                    Contains(trace[i].msg,
                             <<ProviderName[frame.adapter.fn], ": failed to parse response -- ">>)
               /\ Of("onSuccess") = {}
               /\ ~escaped
               /\ pc = "returned"

\* C6 witness: a call has returned after its adapter was handed a body that
\* is not JSON, and onError was told.
C6_Witness ==
    /\ pc = "returned"
    /\ \E r \in Answers : r.success /\ r.responseText = BodyBoom
    /\ Of("onError") # {}

\* C7: when the HTTP collaborator reports success and the body is JSON that
\* lacks a part of the adapter's field path, the last field included, onError
\* gets the parse-failure message and the success callback is not called.
C7_MissingFieldReported ==
    \A r \in Answers :
        (/\ r.success
         /\ JSONParse(r.responseText).t # "throw"
         /\ Extract(frame.adapter, JSONParse(r.responseText)).t # "string")
            => /\ \E i \in Of("onError") :
                    Contains(trace[i].msg,
                             <<ProviderName[frame.adapter.fn], ": failed to parse response -- ">>)
               /\ Of("onSuccess") = {}

\* C8: a cloud adapter sends its request only after the credential resolver
\* returned a key; when the user declines, or the stored value is absent or
\* empty, onError gets the provider's "failed to retrieve API key" message,
\* no request is sent and the success callback is not called.
C8_KeyBeforeRequest ==
    (InCall /\ Cloud)
        => /\ \A i \in Of("http") :
                \E j \in Of("authorized") :
                    j < i /\ trace[j].authorized /\ Truthy(trace[j].value)
           /\ \A j \in Of("authorized") :
                /\ \E k \in Of("credential") : k < j
                /\ (~trace[j].authorized \/ ~Truthy(trace[j].value))
                      => /\ pc = "returned"
                         /\ \E i \in Of("onError") :
                                trace[i].msg = <<ProviderName[frame.adapter.fn],
                                                 ": failed to retrieve API key.">>
                         /\ Of("http") = {}
                         /\ Of("onSuccess") = {}

\* The store answered with an empty key, and the call ended in onError.
C8_Witness ==
    /\ Cloud
    /\ \E j \in Of("authorized") : trace[j].authorized /\ trace[j].value = Str(<<>>)
    /\ Of("onError") # {}

\* The running call resolved to the local provider kind.
Local == Routed /\ Get(frame.providerConfig, "provider") = Str(<<"ollama">>)

AuthHeaders == {"Authorization", "x-api-key"}

\* C9: a call of the local provider kind never asks the credential resolver
\* and its request carries no authorization header.
C9_LocalNeedsNoKey ==
    (InCall /\ Local)
        => /\ Of("credential") = {}
           /\ Of("authorized") = {}
           /\ \A i \in Of("http") : \A h \in trace[i].headers : h[1] \notin AuthHeaders

\* A local call sent its request and handed the reply to the success callback.
C9_Witness ==
    /\ Local
    /\ pc = "returned"
    /\ Of("http") # {}
    /\ Of("onSuccess") # {}

\* C10: a call makes at most one credential round trip and at most one HTTP
\* request, and nothing is asked or sent after onError was called.
C10_OneRoundTrip ==
    InCall
        => /\ Cardinality(Of("credential")) <= 1
           /\ Cardinality(Of("http")) <= 1
           /\ \A i \in Of("onError") :
                /\ pc = "returned"
                /\ \A j \in DOMAIN trace :
                      j > i => trace[j].kind \notin {"credential", "http"}

\* A call that asked for its key and sent its request ended in onError.
C10_Witness ==
    /\ pc = "returned"
    /\ Of("credential") # {}
    /\ Of("http") # {}
    /\ Of("onError") # {}

\* The four provider kinds the switch of callAI knows.
Kinds == {Str(<<"alter">>), Str(<<"openai">>), Str(<<"anthropic">>), Str(<<"ollama">>)}

\* The running call was given a config object that is null, has no provider,
\* or names a provider outside the four kinds.
BadConfig ==
    /\ InCall
    /\ TypeOf(frame.model) = "object"
    /\ \/ ~Truthy(frame.model)
       \/ ~Truthy(Get(frame.model, "provider"))
       \/ Get(frame.model, "provider") \notin Kinds

KindlessConfig ==
    /\ InCall
    /\ frame.succ # Undefined
    /\ frame.model.t = "object"
    /\ "provider" \notin DOMAIN frame.model.p
    /\ "endpoint" \in DOMAIN frame.model.p
    /\ frame.model.p.endpoint.t = "string"
    /\ frame.model.p.endpoint.v # <<>>

\* The adapter the endpoint stands for: the routing proxy's host, a direct
\* provider's host, a local host, and the OpenAI-style adapter for the rest.
SniffedAdapter(endpoint) ==
    LET url == ToLowerCase(endpoint)
    IN  IF Contains(url, <<"alterhq.com">>) THEN "callAlter"
        ELSE IF Contains(url, <<"openai.com">>) THEN "callOpenAI"
        ELSE IF Contains(url, <<"anthropic.com">>) THEN "callAnthropic"
        ELSE IF \E h \in {"localhost", "127.0.0.1", "ollama"} : Contains(url, <<h>>)
             THEN "callOllama"
        ELSE "callOpenAI"

\* C12: a config object without a kind field is resolved by its endpoint: the
\* call enters the adapter of the host the endpoint names, and the
\* OpenAI-style adapter for any other non-empty endpoint.
C12_EndpointSniffing ==
    KindlessConfig
        => /\ \E i \in Of("adapter") :
                trace[i].name = SniffedAdapter(frame.model.p.endpoint.v)
           /\ frame.adapter # NoAdapter
           /\ frame.adapter.fn = SniffedAdapter(frame.model.p.endpoint.v)

\* The success callback the caller's argument stands for: the handler of a
\* keyword, the caller's own function, the new-draft handler otherwise.
ExpectedSuccess ==
    IF TypeOf(frame.onSuccess) = "string" THEN Fn(KeyOf(frame.onSuccess))
    ELSE IF TypeOf(frame.onSuccess) = "function" THEN frame.onSuccess
    ELSE Fn("new")

\* C13: once a call is dispatched to an adapter its success callback is
\* settled: the built-in handler of a recognised keyword, the caller's
\* function itself, or the new-draft handler when the argument is absent or
\* neither a string nor a function; and whenever the callback is called it is
\* that callback, called with the reply text and the decoded payload.
C13_SuccessResolved ==
    (/\ InCall
     /\ Of("adapter") # {}
     /\ TypeOf(frame.onSuccess) = "string" => KeyOf(frame.onSuccess) \in Keywords)
        => /\ frame.succ = ExpectedSuccess
           /\ \A i \in Of("onSuccess") :
                /\ trace[i].fn = ExpectedSuccess
                /\ \E j \in Of("response") :
                     /\ j < i
                     /\ trace[i].raw = JSONParse(trace[j].response.responseText)
                     /\ trace[i].text = Extract(frame.adapter, trace[i].raw)

\* C13 witness: a call made with a null success argument has handed a reply
\* to the new-draft handler, which created a draft with it.
C13_Witness ==
    /\ pc = "returned"
    /\ frame.onSuccess = Null
    /\ \E i \in Of("onSuccess") : trace[i].fn = Fn("new") /\ trace[i].text = Str(ReplyText)
    /\ created # <<>>

\* The running call has returned after a failure: of the configuration (no
\* adapter was entered), of the credential (declined, absent or empty), of
\* the transport (non-success answer) or of the decoding (the body is not
\* JSON, or the field path cannot be walked).
Failed ==
    /\ pc = "returned"
    /\ \/ Of("adapter") = {}
       \/ \E j \in Of("authorized") : ~trace[j].authorized \/ ~Truthy(trace[j].value)
       \/ \E r \in Answers : r # Undefined /\ ~r.success
       \/ \E r \in Answers :
            /\ r # Undefined /\ r.success
            /\ Extract(frame.adapter, JSONParse(r.responseText)).t = "throw"

\* C14: when the onError argument is not a function, no exception leaves
\* callAI, and a call that failed has called the host's context.fail exactly
\* once, with a message that starts with "AI Engine Error: ".
C14_DefaultErrorHandler ==
    (InCall /\ TypeOf(frame.onError) # "function")
        => /\ ~escaped
           /\ Failed => /\ Cardinality(Of("context.fail")) = 1
                        /\ \A i \in Of("context.fail") :
                              Head(trace[i].msg) = "AI Engine Error: "

\* The config the running call resolved its model argument to.
ResolvedConfig == ResolveModel(frame.model)

\* The running call has a success callback and a config of one of the four
\* provider kinds with an endpoint of its own.
KnownKind ==
    /\ InCall
    /\ frame.succ # Undefined
    /\ Truthy(ResolvedConfig)
    /\ Get(ResolvedConfig, "provider") \in Kinds
    /\ Truthy(Get(ResolvedConfig, "endpoint"))

\* The adapter and the request path of each provider kind.
AdapterOfKind ==
    [alter |-> "callAlter", openai |-> "callOpenAI",
     anthropic |-> "callAnthropic", ollama |-> "callOllama"]
PathOfKind ==
    [alter |-> "/chat/completions", openai |-> "/chat/completions",
     anthropic |-> "/v1/messages", ollama |-> "/api/chat"]

\* C15: a call whose config resolves to one of the four kinds enters exactly
\* one adapter, the one of that kind, and its request goes to the adapter's
\* path on the config's endpoint, one trailing slash of the endpoint removed.
C15_RoutedByKind ==
    KnownKind
        => LET kind == KeyOf(Get(ResolvedConfig, "provider"))
               base == Get(ResolvedConfig, "endpoint").v
           IN  /\ Cardinality(Of("adapter")) = 1
               /\ \A i \in Of("adapter") : trace[i].name = AdapterOfKind[kind]
               /\ \A i \in Of("http") :
                    trace[i].url =
                        (IF base[Len(base)] = "/" THEN SubSeq(base, 1, Len(base) - 1) ELSE base)
                            \o <<PathOfKind[kind]>>

\* C15 witness: a config of the ollama kind whose endpoint ends in a slash
\* was sent to callOllama, and the request went to <endpoint>/api/chat.
C15_Witness ==
    /\ KnownKind
    /\ \E i \in Of("adapter") : trace[i].name = "callOllama"
    /\ \E i \in Of("http") : trace[i].url = <<"https://llm.example.com", "/api/chat">>

\* The prompt assembled from the params the adapter was given, and the input
\* among them ('' when there is none).
AdapterPrompt == Str(buildSystemPrompt(frame.p))
AdapterInput == OrElse(Get(frame.p, "input"), Str(<<>>))

\* C16: the request of callAlter, callOpenAI and callOllama carries the list
\* [system: assembled prompt, user: input]; the request of callAnthropic
\* carries the assembled prompt as its top-level system field and a list with
\* the user message alone.  The prompt is never the user content and the
\* input never the system content.
C16_PromptAndInputApart ==
    (InCall /\ Routed)
        => \A i \in Of("http") :
              LET body == trace[i].body
              IN  IF frame.adapter.fn = "callAnthropic"
                  THEN /\ "system" \in DOMAIN body
                       /\ body.system = AdapterPrompt
                       /\ body.messages = <<[role |-> "user", content |-> AdapterInput]>>
                  ELSE /\ "system" \notin DOMAIN body
                       /\ body.messages = <<[role |-> "system", content |-> AdapterPrompt],
                                            [role |-> "user", content |-> AdapterInput]>>

\* C16 witness: callAnthropic sent a request with a prompt and an input that
\* differ, the prompt on top and the input as the only message.
C16_Witness ==
    /\ Routed
    /\ frame.adapter.fn = "callAnthropic"
    /\ \E i \in Of("http") :
          /\ Contains(trace[i].body.system.v, <<"# ", "Role", "\n">>)
          /\ Len(trace[i].body.messages) = 1
          /\ trace[i].body.messages[1].content = Str(PiiText)

\* The headings of the prompt, in their order, each with its field.
Headings ==
    << <<"role", "Role">>, <<"goal", "Goal">>, <<"steps", "Instructions">>,
       <<"output", "Output Format">>, <<"example", "Example">> >>

\* The field is present in the params and its value is not blank.
NonBlank(params, field) ==
    /\ field \in DOMAIN params.p
    /\ \E i \in DOMAIN params.p[field].v : params.p[field].v[i] \notin WhiteSpace

\* The sections the claim describes, from heading number i on: a heading
\* line and the trimmed value for each non-blank field, a blank line before
\* every section but the first.
RECURSIVE ExpectedSections(_, _, _)
ExpectedSections(params, i, first) ==
    IF i > Len(Headings) THEN <<>>
    ELSE IF NonBlank(params, Headings[i][1])
    THEN (IF first THEN <<>> ELSE <<"\n", "\n">>)
            \o <<"# ", Headings[i][2], "\n">> \o Trim(params.p[Headings[i][1]].v)
            \o ExpectedSections(params, i + 1, FALSE)
    ELSE ExpectedSections(params, i + 1, first)

\* C17: the assembled prompt is the sections of the non-blank fields in the
\* order Role, Goal, Instructions, Output Format, Example, each a heading
\* line and the trimmed value, one blank line between two sections; it is
\* the empty text when every field is absent or blank.
C17_PromptSections ==
    pc = "assembled"
        => /\ trace[1].text = ExpectedSections(frame.params, 1, TRUE)
           /\ (\A i \in DOMAIN Headings : ~NonBlank(frame.params, Headings[i][1]))
                 => trace[1].text = <<>>

\* C17 witness: a prompt was assembled from a record with a blank goal and
\* no steps: Role, then one blank line, then Output Format.
C17_Witness ==
    /\ pc = "assembled"
    /\ DOMAIN frame.params.p = {"role", "goal", "output"}
    /\ trace[1].text = <<"# ", "Role", "\n", "Edit", " ", "this",
                         "\n", "\n", "# ", "Output Format", "\n", "x">>

\* What the rules 1..n of the list make of one chunk, each rule given what
\* the rules before it left.
RECURSIVE RuleChain(_, _, _)
RuleChain(chunk, rules, n) ==
    IF n = 0 THEN chunk
    ELSE LET c == RuleChain(chunk, rules, n - 1)
         IN  IF c \in rules[n].pattern THEN rules[n].replacement ELSE c

\* What the rule list makes of a text.
Chained(text) ==
    Str([i \in DOMAIN text.v |-> RuleChain(text.v[i], piiPatterns, Len(piiPatterns))])

\* C18: the rule list starts with the built-in rules and the appended rules
\* follow them; sanitize(text) is the text after every rule of the list in
\* list order, each working on what the rules before it left, and so is the
\* user content of a gated request to a cloud provider.
C18_RulesInListOrder ==
    /\ SubSeq(piiPatterns, 1, Len(BuiltinPatterns)) = BuiltinPatterns
    /\ pc = "sanitized"
          => \A i \in Of("sanitize") :
                TypeOf(trace[i].text) = "string" => trace[i].result = Chained(trace[i].text)
    /\ (InCall /\ sanitizePII /\ Cloud /\ TypeOf(CallerInput) = "string")
          => \A i \in Of("http") : UserContent(trace[i].body) = Chained(CallerInput)

\* C18 witness: with the rule for "[EMAIL]" appended, sanitize has rewritten
\* an address to what the appended rule makes of the built-in rule's label.
C18_Witness ==
    /\ pc = "sanitized"
    /\ Len(piiPatterns) > Len(BuiltinPatterns)
    /\ \E i \in Of("sanitize") :
          /\ TypeOf(trace[i].text) = "string"
          /\ Contains(trace[i].text.v, <<"a@b.com">>)
          /\ Contains(trace[i].result.v, <<"[REDACTED]">>)
          /\ ~Contains(trace[i].result.v, <<"[EMAIL]">>)

\* No rule of the list writes a label that a later rule matches.
NoLaterMatch(rules) ==
    \A i, j \in DOMAIN rules : i < j => rules[i].replacement \notin rules[j].pattern

\* No rule of the list writes a label that any rule matches, be it an
\* earlier rule, a later one or the rule itself.
NoMatchAtAll(rules) ==
    \A i, j \in DOMAIN rules : rules[i].replacement \notin rules[j].pattern

Handed(fn) ==
    /\ pc = "http" /\ pc' = "returned"
    /\ frame.succ = fn
    /\ draft.content.t = "string"
    /\ \E i \in DOMAIN trace' :
          /\ i > Len(trace)
          /\ trace'[i].kind = "onSuccess"
          /\ trace'[i].text = Str(ReplyText)

\* C20: when a reply is handed to the replace, append or prepend handler,
\* the current draft's content becomes the reply, the old content + line
\* break + reply, or the reply + line break + old content; the draft is
\* updated exactly once and no draft is created.
C20_HandlersEditDraft ==
    [][/\ Handed(Fn("replace")) => draft'.content = Str(ReplyText)
       /\ Handed(Fn("append"))
             => draft'.content = Str(draft.content.v \o <<"\n">> \o ReplyText)
       /\ Handed(Fn("prepend"))
             => draft'.content = Str(ReplyText \o <<"\n">> \o draft.content.v)
       /\ (\E k \in {"replace", "append", "prepend"} : Handed(Fn(k)))
             => /\ draft'.updates = draft.updates + 1
                /\ draft'.tags = draft.tags
                /\ created' = created]_vars

\* C20 witness: a call with the append keyword has returned, and the draft
\* holds its old content, a line break and the reply, updated once.
C20_Witness ==
    /\ pc = "returned"
    /\ frame.succ = Fn("append")
    /\ Of("onSuccess") # {}
    /\ draft.content = Str(<<"notes", "\n">> \o ReplyText)
    /\ draft.updates = 1
    /\ created = <<>>

\* The events the step appends to the trace of the running call.
Appended == {i \in DOMAIN trace' : pc # "idle" /\ i > Len(trace)}

\* C21: when a reply is handed to the new handler, one draft is added to the
\* drafts created so far, holding the reply text and saved once, and the
\* current draft (content, tags, updates) is as it was.
C21_NewCreatesOneDraft ==
    [][\A i \in Appended :
          (trace'[i].kind = "onSuccess" /\ trace'[i].fn = Fn("new"))
              => /\ created' = Append(created, [content |-> trace'[i].text, updates |-> 1])
                 /\ draft' = draft]_vars

\* C21 witness: a call with the new keyword has returned; the one created
\* draft holds the reply, and the current draft still holds its notes.
C21_Witness ==
    /\ pc = "returned"
    /\ frame.onSuccess = Str(<<"new">>)
    /\ Of("onSuccess") # {}
    /\ created = <<[content |-> Str(ReplyText), updates |-> 1]>>
    /\ draft = InitialDraft

\* The text up to its first line break.
UpToBreak(text) ==
    LET breaks == {i \in DOMAIN text : text[i] = "\n"}
    IN  IF breaks = {} THEN text
        ELSE SubSeq(text, 1, (CHOOSE i \in breaks : \A j \in breaks : i <= j) - 1)

\* The text from its first to its last character that is not a blank.
Stripped(text) ==
    LET inked == {i \in DOMAIN text : text[i] \notin WhiteSpace}
    IN  IF inked = {} THEN <<>>
        ELSE SubSeq(text, CHOOSE i \in inked : \A j \in inked : i <= j,
                          CHOOSE i \in inked : \A j \in inked : i >= j)

\* The first 80 characters of a text that has more, else the text.
Cut(text) == IF Len(text) > 80 THEN SubSeq(text, 1, 80) ELSE text

\* The tokens handler was given a text and has returned.
Tagged == pc = "tagged" /\ TypeOf(frame.responseText) = "string"

\* C22, as stated: the tokens handler sets ai_title to the first line of the
\* reply cut to its first 80 characters, sets ai_content to the whole reply,
\* saves the draft and leaves its content alone.
C22_TitleIsFirstLine ==
    Tagged
        => /\ draft.tags.ai_title = Str(Cut(UpToBreak(frame.responseText.v)))
           /\ Len(draft.tags.ai_title.v) <= 80
           /\ draft.tags.ai_content = frame.responseText
           /\ draft.updates = 1
           /\ draft.content = InitialDraft.content

\* C22, amended: ai_title is the first line of the reply without the blanks
\* around it, cut to its first 80 characters; the rest as stated.
C22_TitleIsTrimmedFirstLine ==
    Tagged
        => /\ draft.tags.ai_title = Str(Cut(Stripped(UpToBreak(frame.responseText.v))))
           /\ Len(draft.tags.ai_title.v) <= 80
           /\ draft.tags.ai_content = frame.responseText
           /\ draft.updates = 1
           /\ draft.content = InitialDraft.content
           /\ created = <<>>

\* C22 witness: a reply of two lines, the first of more than 80 characters
\* between blanks, got a title of exactly 80 characters, the first of them
\* not a blank.
C22_Witness ==
    /\ Tagged
    /\ Len(UpToBreak(frame.responseText.v)) > 80
    /\ Len(UpToBreak(frame.responseText.v)) < Len(frame.responseText.v)
    /\ Head(frame.responseText.v) = " "
    /\ Len(draft.tags.ai_title.v) = 80
    /\ Head(draft.tags.ai_title.v) = "a"
    /\ draft.tags.ai_content = frame.responseText

\* The success callback throws when it is called as the event records: the
\* caller's throwing function, and the tokens handler given a value that is
\* no text.
Throwing(ev) ==
    \/ ev.fn = Fn("cbThrows")
    \/ ev.fn = Fn("tokens") /\ TypeOf(ev.text) # "string"

\* The calls of the two callbacks in the trace.
Callbacks == Of("onSuccess") \cup Of("onError")

\* C25: a call that has returned, its collaborators having answered and no
\* callback having thrown, has called exactly one of its two callbacks, the
\* resolved success callback or the error callback, and called it once.
C25_OneCallbackOnce ==
    (pc = "returned" /\ \A i \in Of("onSuccess") : ~Throwing(trace[i]))
        => /\ ~escaped
           /\ Cardinality(Callbacks) = 1
           /\ \A i \in Of("onSuccess") : trace[i].fn = frame.succ

\* C25 witness: a call asked for its key, was given none, and has returned
\* with onError called once and nothing else; no request went out.
C25_Witness ==
    /\ pc = "returned"
    /\ \E j \in Of("authorized") : ~trace[j].authorized
    /\ Cardinality(Of("onError")) = 1
    /\ Of("onSuccess") = {}
    /\ Of("http") = {}

\* C26: when the success callback throws on the reply it is handed, no
\* exception leaves callAI: the call returns, and the success callback's
\* call is followed by one call of onError with the provider's "failed to
\* parse response" message.
C26_ThrowingCallbackReported ==
    \A i \in Of("onSuccess") :
        Throwing(trace[i])
            => /\ pc = "returned"
               /\ ~escaped
               /\ Cardinality(Of("onError")) = 1
               /\ \A j \in Of("onError") :
                     /\ j > i
                     /\ Contains(trace[j].msg,
                                 <<ProviderName[frame.adapter.fn],
                                   ": failed to parse response -- ">>)

\* C26 witness: the caller's own function threw on a well-formed reply of
\* the Anthropic adapter, and onError was called after it.
C26_Witness ==
    /\ pc = "returned"
    /\ frame.adapter.fn = "callAnthropic"
    /\ \E i \in Of("onSuccess") :
          /\ trace[i].fn = Fn("cbThrows")
          /\ trace[i].text = Str(ReplyText)
          /\ \E j \in Of("onError") : j > i

\* The first of callAI's four checks that the arguments of the running
\* call fail: a keyword outside the five, a shorthand outside the registry,
\* a config without a provider kind, a kind outside the four.
FirstInvalid ==
    LET config == IF TypeOf(frame.model) = "string"
                  THEN (IF KeyOf(frame.model) \in RegistryKeys
                        THEN MODELS.p[KeyOf(frame.model)] ELSE Undefined)
                  ELSE frame.model
    IN  CASE TypeOf(frame.onSuccess) = "string" /\ KeyOf(frame.onSuccess) \notin Keywords ->
                "ai-engine: unknown success keyword \""
          [] TypeOf(frame.model) = "string" /\ KeyOf(frame.model) \notin RegistryKeys ->
                "ai-engine: unknown model \""
          [] ~Truthy(config) \/ "provider" \notin DOMAIN config.p
                \/ ~Truthy(config.p.provider) ->
                "ai-engine: config must include a provider field (alter, openai, anthropic, or ollama)."
          [] config.p.provider \notin Kinds ->
                "ai-engine: unrecognised provider \""
          [] OTHER -> "none"

\* C27: callAI checks the success keyword, then the model shorthand, then the
\* presence of a provider kind, then the kind itself; a call that fails any
\* of them ends with onError called exactly once, with the message of the
\* first check it fails, and enters no adapter.
C27_FirstFailingCheck ==
    (InCall /\ FirstInvalid # "none")
        => /\ pc = "returned"
           /\ Cardinality(Of("onError")) = 1
           /\ \A i \in Of("onError") : Head(trace[i].msg) = FirstInvalid
           /\ Of("adapter") = {}

\* The arguments of the running call are names of its own tables or are no
\* names that Object.prototype defines.
OwnNames ==
    /\ TypeOf(frame.onSuccess) = "string" => KeyOf(frame.onSuccess) \notin ObjectPrototypeProps
    /\ TypeOf(frame.model) = "string" => KeyOf(frame.model) \notin ObjectPrototypeProps

\* The order of the checks for names that Object.prototype does not define.
ValidationOrderOfOwnNames == OwnNames => C27_FirstFailingCheck

\* Two checks failed at once, keyword and shorthand, and the keyword's
\* message was the one reported.
ValidationOrderReached ==
    /\ pc = "returned"
    /\ frame.onSuccess = Str(<<"not-a-keyword">>)
    /\ frame.model = Str(<<"no-such-model">>)
    /\ \E i \in Of("onError") : Head(trace[i].msg) = "ai-engine: unknown success keyword \""

\* The gate of the running call was open: the flag on, a config with a
\* provider kind other than ollama.
GateOpen ==
    /\ InCall
    /\ sanitizePII
    /\ frame.succ # Undefined
    /\ Truthy(ResolvedConfig)
    /\ Truthy(Get(ResolvedConfig, "provider"))
    /\ Get(ResolvedConfig, "provider") # Str(<<"ollama">>)

\* C28: through the whole call the caller's params value is what the caller
\* passed, its input and every other field as they were; when the gate is
\* open the adapter is given another record, whose input is the scrubbed
\* text.
C28_CallerParamsUntouched ==
    InCall
        => /\ frame.held = frame.params
           /\ GateOpen
                => /\ DOMAIN frame.p.p = PromptFields \cup {"input"}
                   /\ Get(frame.p, "input")
                          = sanitizeText(OrElse(CallerInput, Str(<<>>)))

\* C28 witness: a gated cloud call given a params object has returned; its
\* request carried the scrubbed input, and the caller's object still holds
\* the text with the address in it.
C28_Witness ==
    /\ pc = "returned"
    /\ GateOpen
    /\ TypeOf(frame.params) = "object" /\ Truthy(frame.params)
    /\ Get(frame.held, "input") = Str(PiiText)
    /\ \E i \in Of("http") :
          /\ UserContent(trace[i].body) # Str(PiiText)
          /\ Contains(UserContent(trace[i].body).v, <<"[EMAIL]">>)

\* The provider kind of the running call, once it is routed.
KindOfCall == KeyOf(Get(ResolvedConfig, "provider"))

\* The endpoint of the config names a loopback address.
Loopback(config) ==
    \E h \in {"localhost", "127.0.0.1"} : Contains(ToText(Get(config, "endpoint")), <<h>>)

\* C29: with the flag on, the user content of a routed call's request is
\* settled by the provider kind of its config: the caller's input as given
\* for the ollama kind, the scrubbed input for alter, openai and anthropic,
\* whether the endpoint is a loopback address or a remote host.
C29_GateReadsKindOnly ==
    (InCall /\ Routed /\ sanitizePII)
        => \A i \in Of("http") :
              UserContent(trace[i].body) =
                  IF KindOfCall = "ollama" THEN CallerInput ELSE Chained(CallerInput)

\* C29 witness: with the flag on, a config of the ollama kind whose endpoint
\* is a remote host was sent the text with the address and the phone number
\* in it.
C29_Witness ==
    /\ Routed /\ sanitizePII
    /\ KindOfCall = "ollama"
    /\ ~Loopback(ResolvedConfig)
    /\ \E i \in Of("http") :
          /\ trace[i].url = <<"https://", "llm.example.com", "/api/chat">>
          /\ UserContent(trace[i].body) = Str(PiiText)
          /\ Chained(Str(PiiText)) # Str(PiiText)

\* The credential each kind asks for; the ollama kind asks for none.
CredentialOfKind == [alter |-> "AlterHQ", openai |-> "OpenAI", anthropic |-> "Anthropic"]

\* The header each kind puts its key in, and what it writes before the key.
AuthOfKind ==
    [alter     |-> <<"Authorization", <<"Bearer ">>>>,
     openai    |-> <<"Authorization", <<"Bearer ">>>>,
     anthropic |-> <<"x-api-key", <<>>>>]

\* C30: a routed call of the alter, openai or anthropic kind asks for the
\* credential named after its kind, whatever shorthand, model and endpoint
\* it has; the value the store returned for it is what the request to the
\* config's endpoint carries in the kind's auth header, and no request
\* carries the key of another kind.  A call of the ollama kind asks for no
\* credential and sends no such header.
C30_CredentialByKind ==
    (InCall /\ Routed)
        => /\ \A i \in Of("credential") :
                /\ KindOfCall \in DOMAIN CredentialOfKind
                /\ trace[i].key = CredentialOfKind[KindOfCall]
           /\ KindOfCall = "ollama" => Of("credential") = {}
           /\ \A i \in Of("http") : \A h \in trace[i].headers :
                /\ h[1] \in AuthHeaders
                      => /\ KindOfCall \in DOMAIN AuthOfKind
                         /\ h[1] = AuthOfKind[KindOfCall][1]
                         /\ \E j \in Of("authorized") :
                               /\ j < i
                               /\ h[2] = AuthOfKind[KindOfCall][2] \o trace[j].value.v
                /\ \A k \in DOMAIN CredentialOfKind :
                      Contains(h[2], <<CredentialOfKind[k]>>) => k = KindOfCall

\* C30 witness: a config of the openai kind whose endpoint is the Anthropic
\* host asked for the OpenAI credential and sent the OpenAI key there as a
\* bearer token.
C30_Witness ==
    /\ Routed
    /\ KindOfCall = "openai"
    /\ Get(ResolvedConfig, "endpoint") = Str(AnthropicEndpoint)
    /\ \E i \in Of("credential") : trace[i].key = "OpenAI"
    /\ \E i \in Of("http") :
          /\ trace[i].url = AnthropicEndpoint \o <<"/chat/completions">>
          /\ <<"Authorization", <<"Bearer ", "sk-", "OpenAI">>>> \in trace[i].headers


\* C23: no step of a callAI invocation, from its entry through its waits to
\* its return and whatever its arguments and outcome, assigns a property
\* of the model registry or writes the sanitization rule list (the
\* lastIndex of each pattern included) or the sanitization flag: each is
\* after the step what it was before it.
C23_CallWritesNoSharedState ==
    [][(InCall \/ InCall')
          => /\ modelWrites' = modelWrites
             /\ piiPatterns' = piiPatterns
             /\ sanitizePII' = sanitizePII]_vars

\* C23 witness: with the flag set and a rule pushed, a cloud call given a
\* text has scrubbed it with every pattern of the list, sent it, called the
\* success callback and returned; the registry is the literal's and no
\* pattern has moved its lastIndex.
C23_Witness ==
    /\ pc = "returned"
    /\ GateOpen
    /\ TypeOf(frame.params) = "string"
    /\ Len(piiPatterns) > Len(BuiltinPatterns)
    /\ \E i \in Of("http") : Contains(UserContent(trace[i].body).v, <<"[EMAIL]">>)
    /\ Of("onSuccess") # {}
    /\ models = MODELS
    /\ \A i \in DOMAIN piiPatterns : piiPatterns[i].lastIndex = 0

\* What a call did that the outside sees: the credentials it asked for, its
\* HTTP requests and its callback invocations, in order.
Issued(tr) ==
    SelectSeq(tr, LAMBDA ev : ev.kind \in {"credential", "http", "onSuccess", "onError",
                                          "context.fail"})

\* What the collaborators answered a call, in order.
Answered(tr) == SelectSeq(tr, LAMBDA ev : ev.kind \in {"authorized", "response"})

\* The running call has the arguments, the flag, the rule list and the
\* collaborator answers of the kept call.
SameAsKept ==
    /\ kept # <<>>
    /\ kept[1].model = frame.model
    /\ kept[1].params = frame.params
    /\ kept[1].onSuccess = frame.onSuccess
    /\ kept[1].onError = frame.onError
    /\ kept[1].sanitizePII = sanitizePII
    /\ kept[1].piiPatterns = piiPatterns
    /\ Answered(kept[1].trace) = Answered(trace)

\* C24: a call that has returned, having had the arguments, the flag, the
\* rule list and the collaborator answers of an earlier call, has asked for
\* the same credentials, issued the same HTTP requests and invoked the same
\* callbacks with the same arguments as that call, whatever calls, sanitize
\* calls, flag changes and document edits lie between the two.
C24_NoCarryOver ==
    (pc = "returned" /\ SameAsKept) => Issued(trace) = Issued(kept[1].trace)

\* C24 witness: a gated cloud call, made with no input, has sent its request
\* and replaced the document with the reply; it repeats an earlier call
\* that was made when the document still had its first content, and a
\* third call lies between the two.
C24_Witness ==
    /\ pc = "returned"
    /\ SameAsKept
    /\ calls = MaxRepeat
    /\ GateOpen
    /\ frame.params = Undefined
    /\ frame.onSuccess = Str(<<"replace">>)
    /\ draft.updates >= 2
    /\ Of("http") # {}
    /\ \E i \in Of("onSuccess") : trace[i].fn = Fn("replace")
====
